---- MODULE Spec2Model ----
(***************************************************************************)
(* A model of the IRTOMS scheduling core (services/AlgorithmicBrain.js):   *)
(* the Schedule Optimizer (generateOptimalSchedule and its three layers)   *)
(* and the Real-Time Reconciler (handleRealTimeUpdate), with the HTTP      *)
(* handler of server.js that exposes the Reconciler.                       *)
(*                                                                         *)
(* Times are minutes (the code's Date values are whole milliseconds; every *)
(* quantity the code adds to them is a multiple of a minute here).         *)
(*                                                                         *)
(* JavaScript objects are modelled with the sharing the code gives them:   *)
(* a schedule object is a record, copied by value where the code writes    *)
(* { ...schedule }, and its `stations` array (with the stop objects in it) *)
(* is a reference into `heap`, because the shallow copy shares the array   *)
(* and the code assigns to the stop objects in place.                      *)
(***************************************************************************)
EXTENDS Integers, Sequences, FiniteSets, TLC

VARIABLES
    currentSchedule,  \* this.currentSchedule: Map trainId -> schedule object
    heap,             \* the `stations` arrays: reference -> sequence of stops
    calls,            \* the handleRealTimeUpdate invocations, one record each
    optPc,            \* position of the generateOptimalSchedule invocation
    optTrains,        \* its `trains` argument (an array of train ids)
    population,       \* the genetic algorithm's population array
    newPopulation,    \* the next generation being built
    generation,       \* the generation loop counter
    optResult,        \* what generateOptimalSchedule returned
    stateEstimators,  \* dataHub.stateEstimators: Map trainId -> estimator
    activeTrains,     \* dataHub.activeTrains: Map trainId -> TrainState, in insertion order
    trainDb,          \* the Train collection: trainId -> currentStatus.currentStation
    cycles,           \* the detectAndReportConflicts invocations, one record each
    lastCycle,        \* the conflicts emitted by the step just taken, if it ended a cycle
    lastIngest,       \* the Reading emitted by the step just taken, with its raw reading
    lastBroadcast,    \* the 'train-position-update' event of the step just taken
    received,         \* history: per train, the Readings processed, in arrival order
    now,              \* the server's clock, in units of 10 s
    requests,         \* the POST /scenario-analysis requests, one record each
    conflictDetectionActive,  \* dataHub.conflictDetectionActive
    aiTrains,         \* trafficOptimizer.activeTrains: Map trainId -> train data
    sectionCapacities,  \* trafficOptimizer.sectionCapacities, for the one section
    analysis          \* the analyzeScenarios invocation

optimizerVars == <<optPc, optTrains, population, newPopulation, generation, optResult>>
hubVars == <<stateEstimators, activeTrains, trainDb, cycles, lastCycle, lastIngest,
             lastBroadcast, received>>
scenarioVars == <<now, requests>>
detectionVars == <<conflictDetectionActive>>
trafficVars == <<aiTrains, sectionCapacities, analysis>>
vars == <<currentSchedule, heap, calls, optPc, optTrains, population,
          newPopulation, generation, optResult, stateEstimators, activeTrains,
          trainDb, cycles, lastCycle, lastIngest, lastBroadcast, received,
          now, requests, conflictDetectionActive, aiTrains,
          sectionCapacities, analysis>>

(***************************************************************************)
(* Bounds of the model.                                                    *)
(***************************************************************************)
NumTrains == 3
MaxCalls == 2
MaxAffected == 2

TrainIds == 1..NumTrains
CallIds == 1..MaxCalls

\* Reported delays, in minutes.  The interface takes the number from the
\* request body unchecked (server.js:206), so negative values are inputs too.
Delays == {-5, 15}

RECURSIVE SeqsUpTo(_, _)
SeqsUpTo(S, n) ==
    IF n = 0 THEN {<<>>}
    ELSE LET shorter == SeqsUpTo(S, n - 1)
         IN  shorter \cup {Append(s, x) : s \in {q \in shorter : Len(q) = n - 1}, x \in S}

Ascending(s) == \A a, b \in DOMAIN s : a < b => s[a] < s[b]

\* The affectedTrains arguments: lists of distinct train ids in ascending
\* order, the reporting train itself among them.
AffectedLists == {s \in SeqsUpTo(TrainIds, MaxAffected) : Ascending(s)}

Range(s) == {s[k] : k \in DOMAIN s}

(***************************************************************************)
(* Reference data: trains (models/Train.js) and the route (models/Route).  *)
(***************************************************************************)
TrainTypes == <<"EXPRESS", "PASSENGER", "VIP", "FREIGHT", "SUPERFAST_EXPRESS">>

TrainTypeOf(t) == TrainTypes[((t - 1) % Len(TrainTypes)) + 1]

\* trainSchema.pre('save'): priority, allowedHalts and maxSpeed by train type.
TrainConstraints(type) ==
    CASE type = "VIP"               -> [priority |-> 1, allowedHalts |-> 0,   maxSpeed |-> 160]
      [] type = "SUPERFAST_EXPRESS" -> [priority |-> 2, allowedHalts |-> 4,   maxSpeed |-> 130]
      [] type = "EXPRESS"           -> [priority |-> 3, allowedHalts |-> 5,   maxSpeed |-> 110]
      [] type = "PASSENGER"         -> [priority |-> 4, allowedHalts |-> 15,  maxSpeed |-> 80]
      [] type = "FREIGHT"           -> [priority |-> 5, allowedHalts |-> 999, maxSpeed |-> 60]

Train(t) ==
    LET type == TrainTypeOf(t)
        k == TrainConstraints(type)
    IN  [id |-> t, trainType |-> type, priority |-> k.priority,
         allowedHalts |-> k.allowedHalts, maxSpeed |-> k.maxSpeed]

\* The stations of the one route every train of the model runs on, as
\* getStationsInOrder returns them (sorted by sequence).
RouteStations ==
    << [station |-> 1, sequence |-> 1, distanceFromStart |-> 0],
       [station |-> 2, sequence |-> 2, distanceFromStart |-> 88] >>

Abs(x) == IF x < 0 THEN -x ELSE x

\* Route.calculateTravelTime: (distance / trainSpeed) * 60 minutes.  The
\* distances of RouteStations make the quotient whole for the speeds of the
\* first four train types.
calculateTravelTime(from, to, trainSpeed) ==
    (Abs(to.distanceFromStart - from.distanceFromStart) * 60) \div trainSpeed

(***************************************************************************)
(* generateRandomTrainSchedule and its helpers.                            *)
(***************************************************************************)
\* A halt decision that looks at the origin and destination before the
\* budget, for comparison with shouldTrainHalt.
shouldTrainHaltEndsFirst(train, currentHalts, stationIndex, totalStations, draw) ==
    IF stationIndex = 0 \/ stationIndex = totalStations - 1 THEN TRUE
    ELSE IF currentHalts >= train.allowedHalts THEN FALSE
    ELSE draw

\* shouldTrainHalt; `draw` is the outcome of Math.random() < 0.3.
shouldTrainHalt(train, currentHalts, stationIndex, totalStations, draw) ==
    IF currentHalts >= train.allowedHalts THEN FALSE
    ELSE IF stationIndex = 0 \/ stationIndex = totalStations - 1 THEN TRUE
    ELSE draw

calculateHaltDuration(train) ==
    CASE train.trainType = "VIP"               -> 2
      [] train.trainType = "SUPERFAST_EXPRESS" -> 3
      [] train.trainType = "EXPRESS"           -> 5
      [] train.trainType = "PASSENGER"         -> 10
      [] train.trainType = "FREIGHT"           -> 15
      [] OTHER                                 -> 5

\* The station loop of generateRandomTrainSchedule, from (1-based) index i on;
\* acc carries schedule.stations, schedule.halts and currentTime.
RECURSIVE StationLoop(_, _, _, _, _)
StationLoop(train, stations, draws, i, acc) ==
    IF i > Len(stations) THEN acc
    ELSE
        LET travelTime == IF i = 1 THEN 0
                          ELSE calculateTravelTime(stations[i - 1], stations[i], train.maxSpeed)
            arrive == acc.currentTime + travelTime
            shouldHalt == shouldTrainHalt(train, acc.halts, i - 1, Len(stations), draws[i])
            haltDuration == IF shouldHalt THEN calculateHaltDuration(train) ELSE 0
            stop == [stationId |-> stations[i].station,
                     arrivalTime |-> arrive,
                     departureTime |-> arrive + haltDuration,
                     isHalt |-> shouldHalt,
                     haltDuration |-> haltDuration]
        IN  StationLoop(train, stations, draws, i + 1,
                        [stations |-> Append(acc.stations, stop),
                         halts |-> IF shouldHalt THEN acc.halts + 1 ELSE acc.halts,
                         currentTime |-> arrive + haltDuration])

\* generateRandomTrainSchedule: the schedule object's own fields, and the
\* contents of its stations array.  departure is the random departure time,
\* draws[i] the random halt decision at station i.
ScheduleOnRoute(train, stations, departure, draws) ==
    LET r == StationLoop(train, stations, draws, 1,
                         [stations |-> <<>>, halts |-> 0, currentTime |-> departure])
    IN  [trainId |-> train.id, trainType |-> train.trainType, priority |-> train.priority,
         departureTime |-> departure, stops |-> r.stations, totalDelay |-> 0,
         halts |-> r.halts]

generateRandomTrainSchedule(train, departure, draws) ==
    ScheduleOnRoute(train, RouteStations, departure, draws)

\* A schedule object whose stations array is heap[ref].
ScheduleObject(g, ref) ==
    [trainId |-> g.trainId, trainType |-> g.trainType, priority |-> g.priority,
     departureTime |-> g.departureTime, stations |-> ref, totalDelay |-> g.totalDelay,
     halts |-> g.halts]

NoDraws == [i \in 1..Len(RouteStations) |-> FALSE]

(***************************************************************************)
(* The Real-Time Reconciler: handleRealTimeUpdate.                         *)
(***************************************************************************)
\* A shift that moves the arrival alone, for comparison with ShiftStop.
ShiftStopArrivalOnly(stop, minutes) ==
    [stop EXCEPT !.arrivalTime = @ + minutes]

ShiftStop(stop, minutes) ==
    [stop EXCEPT !.arrivalTime = @ + minutes, !.departureTime = @ + minutes]

\* rightShiftSchedule: the copy { ...schedule } shares the stations array, so
\* the loop shifts the stops of the schedule it was given; only totalDelay
\* is changed in the copy alone.
rightShiftSchedule(h, schedule, delayMinutes) ==
    [heap |-> [h EXCEPT ![schedule.stations] =
                    [k \in DOMAIN @ |-> ShiftStop(@[k], delayMinutes)]],
     schedule |-> [schedule EXCEPT !.totalDelay = @ + delayMinutes]]

\* A repair that passes the reporting train's delay on to the affected train
\* whether or not the two conflict.
localRepairPropagating(affectedSchedule, conflictingSchedule) ==
    [affectedSchedule EXCEPT !.totalDelay = @ + conflictingSchedule.totalDelay]

\* localRepair: a shallow copy of the affected schedule, nothing adjusted.
localRepair(affectedSchedule, conflictingSchedule) == affectedSchedule

\* this.currentSchedule.get(trainId) is truthy
HasSchedule(store, t) == t \in DOMAIN store

\* The responses of POST /api/intelligent/optimize (server.js).
OptimizeSuccessResponse == [status |-> 200, success |-> TRUE, message |-> "ok"]
\* A catch block that answers as if the update had succeeded.
OptimizeErrorSwallowed(message) == [status |-> 200, success |-> TRUE, message |-> message]
OptimizeErrorResponse(message) == [status |-> 500, success |-> FALSE, message |-> message]
NoResponse == [status |-> 0, success |-> FALSE, message |-> "pending"]

NoSchedule == [trainId |-> 0, trainType |-> "none", priority |-> 0, departureTime |-> 0,
               stations |-> 0, totalDelay |-> 0, halts |-> 0]

IdleCall ==
    [pc |-> "idle", trainId |-> 0, currentDelay |-> 0, affectedTrains |-> <<>>,
     updatedSchedule |-> NoSchedule, i |-> 0, repairedSchedule |-> NoSchedule,
     affectedSchedules |-> <<>>, error |-> "", response |-> NoResponse,
     pre |-> [currentSchedule |-> <<>>, heap |-> <<>>], concurrentWith |-> {}]

InFlight(c) == calls[c].pc \in {"awaitShift", "awaitRepair"}

\* The first index j >= i of the affected list whose train has a stored
\* schedule (the loop body awaits only for those), or Len + 1.
RECURSIVE NextPresent(_, _, _)
NextPresent(affectedTrains, i, store) ==
    IF i > Len(affectedTrains) THEN i
    ELSE IF HasSchedule(store, affectedTrains[i]) THEN i
    ELSE NextPresent(affectedTrains, i + 1, store)

\* Lines 370-373: set the reporting train's schedule, then every repaired one.
WriteBack(store, trainId, updatedSchedule, affectedSchedules) ==
    [k \in DOMAIN store \cup {trainId} \cup DOMAIN affectedSchedules |->
        IF k \in DOMAIN affectedSchedules THEN affectedSchedules[k]
        ELSE IF k = trainId THEN updatedSchedule
        ELSE store[k]]

\* handleRealTimeUpdate from its call to its first await (line 357), or to
\* its throw (line 353), as called by the POST /api/intelligent/optimize
\* handler.  pre and concurrentWith record the state at the call for the
\* properties below.
Invoke(c, t, d, aff) ==
    /\ calls[c].pc = "idle"
    /\ LET started == [calls[c] EXCEPT
                          !.trainId = t, !.currentDelay = d, !.affectedTrains = aff,
                          !.pre = [currentSchedule |-> currentSchedule, heap |-> heap],
                          !.concurrentWith = {o \in CallIds : InFlight(o)}]
       IN  IF ~HasSchedule(currentSchedule, t)
           THEN /\ calls' = [calls EXCEPT ![c] =
                                [started EXCEPT !.pc = "thrown",
                                                !.error = "No schedule found"]]
                /\ UNCHANGED <<currentSchedule, heap>>
           ELSE LET r == rightShiftSchedule(heap, currentSchedule[t], d)
                IN  /\ heap' = r.heap
                    /\ calls' = [calls EXCEPT ![c] =
                                    [started EXCEPT !.pc = "awaitShift",
                                                    !.updatedSchedule = r.schedule]]
                    /\ UNCHANGED currentSchedule
    /\ UNCHANGED <<optimizerVars, hubVars, scenarioVars, detectionVars, trafficVars>>

\* A call made when every earlier request has been answered, into the first
\* unused record.
InvokeAlone(c, t, d, aff) ==
    /\ \A o \in CallIds : calls[o].pc \in {"idle", "answered"}
    /\ \A o \in 1..(c - 1) : calls[o].pc # "idle"
    /\ Invoke(c, t, d, aff)

\* handleRealTimeUpdate from the resumption after an await to the next await
\* or to its return: the repair loop awaits once per affected train that has
\* a stored schedule; after the loop the schedules are written back.
Resume(c) ==
    /\ InFlight(c)
    /\ LET cr == calls[c]
           repaired == IF cr.pc = "awaitRepair"
                       THEN (cr.affectedTrains[cr.i] :> cr.repairedSchedule) @@ cr.affectedSchedules
                       ELSE cr.affectedSchedules
           from == IF cr.pc = "awaitRepair" THEN cr.i + 1 ELSE 1
           j == NextPresent(cr.affectedTrains, from, currentSchedule)
       IN  IF j <= Len(cr.affectedTrains)
           THEN /\ calls' = [calls EXCEPT ![c] =
                                [cr EXCEPT
                                    !.pc = "awaitRepair", !.i = j,
                                    !.affectedSchedules = repaired,
                                    !.repairedSchedule =
                                        localRepair(currentSchedule[cr.affectedTrains[j]],
                                                    cr.updatedSchedule)]]
                /\ UNCHANGED currentSchedule
           ELSE /\ currentSchedule' =
                        WriteBack(currentSchedule, cr.trainId, cr.updatedSchedule, repaired)
                /\ calls' = [calls EXCEPT ![c] =
                                [cr EXCEPT !.pc = "done", !.affectedSchedules = repaired]]
    /\ UNCHANGED <<heap, optimizerVars, hubVars, scenarioVars, detectionVars, trafficVars>>

\* The handler of POST /api/intelligent/optimize after its await: the result
\* goes out as a success, a thrown error through the catch block.  The
\* invocation's frame is gone then; the response stays.
Respond(c) ==
    /\ calls[c].pc \in {"done", "thrown"}
    /\ calls' = [calls EXCEPT ![c] =
                    [IdleCall EXCEPT
                        !.pc = "answered",
                        !.response = IF calls[c].pc = "done"
                                     THEN OptimizeSuccessResponse
                                     ELSE OptimizeErrorResponse(calls[c].error)]]
    /\ UNCHANGED <<currentSchedule, heap, optimizerVars, hubVars,
                   scenarioVars, detectionVars, trafficVars>>

\* getOptimizationStatus().activeSchedules
activeSchedules == Cardinality(DOMAIN currentSchedule)

(***************************************************************************)
(* Specifications of the Reconciler.  The schedule store is a Map the class *)
(* exposes and documents as "trainId -> optimized schedule"; the Reconciler *)
(* is specified over stores that hold schedules of the Optimizer's making   *)
(* for the first k trains (k = 0..NumTrains), each with its own stations    *)
(* array.                                                                   *)
(***************************************************************************)
\* The schedule generateRandomTrainSchedule makes for train t when it departs
\* at the start of the horizon.
SeedSchedule(t) == generateRandomTrainSchedule(Train(t), 0, NoDraws)

\* Bounds of the Real-Time Data Hub's model (services/RealTimeDataHub.js).
NumHubTrains == 4
MaxCycles == 2
MaxFusions == 2
MaxReadings == 4

HubTrainIds == 1..NumHubTrains
CycleIds == 1..MaxCycles

\* A detectAndReportConflicts invocation that is not running.
IdleCycle ==
    [pc |-> "idle", caller |-> "none", activeTrainList |-> <<>>, conflicts |-> <<>>,
     atStart |-> <<>>, seen |-> <<>>]

NoCycle == [finished |-> FALSE, trains |-> <<>>, conflicts |-> <<>>, seen |-> <<>>]
NoIngest == [source |-> "none"]
NoBroadcast == [trainId |-> 0]

\* The hub after its constructor: empty maps, no cycle running.
HubConstructed ==
    /\ stateEstimators = <<>>
    /\ activeTrains = <<>>
    /\ cycles = [c \in CycleIds |-> IdleCycle]
    /\ lastCycle = NoCycle
    /\ lastIngest = NoIngest
    /\ lastBroadcast = NoBroadcast
    /\ received = [t \in HubTrainIds |-> <<>>]

HubIdle == HubConstructed /\ trainDb = <<>>

\* The traffic-control routes before any request: MaxRequests is the number
\* of scenario-analysis requests the model follows.
MaxRequests == 2
RequestIds == 1..MaxRequests

NoReply == [status |-> 0, errorCode |-> "", at |-> 0]

NoRequest ==
    [pc |-> "none", left |-> 0, scenarioWork |-> 0, throws |-> FALSE,
     receivedAt |-> 0, analysisTime |-> 0, timer |-> "none", timerDue |-> 0,
     response |-> NoReply]

NoRequests ==
    /\ now = 0
    /\ requests = [r \in RequestIds |-> NoRequest]

\* The data hub's constructor turns conflict detection on.
DetectionOn == conflictDetectionActive = TRUE

\* The traffic optimizer after construction: no section, no train, and no
\* analyzeScenarios invocation.
NoAnalysis ==
    [pc |-> "idle", scenarios |-> <<>>,
     before |-> [aiTrains |-> <<>>, sectionCapacities |-> <<>>]]

TrafficOptimizerIdle ==
    /\ aiTrains = <<>>
    /\ sectionCapacities = <<>>
    /\ analysis = NoAnalysis

OptimizerIdle ==
    /\ optPc = "idle"
    /\ optTrains = <<>>
    /\ population = <<>>
    /\ newPopulation = <<>>
    /\ generation = 0
    /\ optResult = <<>>

Init ==
    /\ \E k \in 0..NumTrains :
          /\ currentSchedule = [t \in 1..k |-> ScheduleObject(SeedSchedule(t), t)]
          /\ heap = [t \in 1..k |-> SeedSchedule(t).stops]
    /\ calls = [c \in CallIds |-> IdleCall]
    /\ OptimizerIdle
    /\ HubIdle
    /\ NoRequests
    /\ DetectionOn
    /\ TrafficOptimizerIdle

\* Calls may overlap: each is suspended at its awaits and the others run.
Next ==
    \/ \E c \in CallIds, t \in TrainIds, d \in Delays, aff \in AffectedLists :
          Invoke(c, t, d, aff)
    \/ \E c \in CallIds : Resume(c)
    \/ \E c \in CallIds : Respond(c)

Spec == Init /\ [][Next]_vars

\* One call at a time: a call starts only when none is in flight.
SeqNext ==
    \/ \E c \in CallIds, t \in TrainIds, d \in Delays, aff \in AffectedLists :
          InvokeAlone(c, t, d, aff)
    \/ \E c \in CallIds : Resume(c)
    \/ \E c \in CallIds : Respond(c)

SpecSeq == Init /\ [][SeqNext]_vars

\* The socket handler of 'emergency-signal' (server.js): it awaits
\* handleRealTimeUpdate with the maximum delay, outside any try block, and
\* then broadcasts 'emergency-alert'.
EmergencyDelay == 999

\* An 'emergency-signal' message arrives: the handler runs to the first await
\* of handleRealTimeUpdate, or to its throw.
EmergencySignal(c, t, aff) ==
    /\ \A o \in 1..(c - 1) : calls[o].pc # "idle"
    /\ Invoke(c, t, EmergencyDelay, aff)

\* handleRealTimeUpdate has returned: io.emit('emergency-alert', ...).  When
\* it has thrown, the handler's promise is rejected and nothing follows.
EmergencyAlert(c) ==
    /\ calls[c].pc = "done"
    /\ calls' = [calls EXCEPT ![c] = [IdleCall EXCEPT !.pc = "alerted"]]
    /\ UNCHANGED <<currentSchedule, heap, optimizerVars, hubVars, scenarioVars,
                   detectionVars, trafficVars>>

EmergencyNext ==
    \/ \E c \in CallIds, t \in TrainIds, aff \in AffectedLists : EmergencySignal(c, t, aff)
    \/ \E c \in CallIds : Resume(c)
    \/ \E c \in CallIds : EmergencyAlert(c)

\* A handler that can go on does: its awaits wait for nothing outside.
SpecEmergency ==
    /\ Init
    /\ [][EmergencyNext]_vars
    /\ \A c \in CallIds : WF_vars(Resume(c)) /\ WF_vars(EmergencyAlert(c))

(***************************************************************************)
(* The Schedule Optimizer: generateOptimalSchedule.                        *)
(***************************************************************************)
\* Model bounds standing for initializePopulation's populationSize (50) and
\* runGeneticAlgorithm's generations (100), and for the length of `trains`.
PopSize == 2
Generations == 1
MaxOptTrains == 2

\* tournamentSelection's tournamentSize
TournamentSize == 3

\* Random departure times (within the first hour) and mutation adjustments
\* ((Math.random() - 0.5) * 20 minutes lies in [-10, 10)).
DepTimes == {0, 3}
MutAdjust == {-3, 3}

\* The `trains` arguments: arrays of distinct trains, the empty one included.
OptTrainLists ==
    {s \in SeqsUpTo(TrainIds, MaxOptTrains) : Ascending(s)}

\* A JavaScript number that may be the outcome of a division by zero.
JsNumber(v) == [kind |-> "number", val |-> v]
JsNaN == [kind |-> "NaN", val |-> 0]
JsInfinity == [kind |-> "Infinity", val |-> 0]

\* a / b for a >= 0, b >= 0, rounded down to a whole number when finite.
JsDivide(a, b) ==
    IF b = 0 THEN (IF a = 0 THEN JsNaN ELSE JsInfinity)
    ELSE JsNumber(a \div b)

\* (a / b) * 100
JsPercent(a, b) ==
    IF b = 0 THEN (IF a = 0 THEN JsNaN ELSE JsInfinity)
    ELSE JsNumber((a * 100) \div b)

RECURSIVE SumSeq(_)
SumSeq(s) == IF s = <<>> THEN 0 ELSE Head(s) + SumSeq(Tail(s))

RECURSIVE Flatten(_)
Flatten(ss) == IF ss = <<>> THEN <<>> ELSE Head(ss) \o Flatten(Tail(ss))

Max(a, b) == IF a >= b THEN a ELSE b

\* Array.prototype.sort with a comparator (a, b) => key(a) - key(b), which is
\* stable: an element's place is the number of elements that go before it,
\* those with a smaller key and those with the same key and a smaller index.
SortedPlace(keys, x) ==
    1 + Cardinality({y \in DOMAIN keys :
                        keys[y] < keys[x] \/ (keys[y] = keys[x] /\ y < x)})

SortByKeys(s, keys) ==
    [k \in DOMAIN s |-> s[CHOOSE x \in DOMAIN s : SortedPlace(keys, x) = k]]

SortByFitness(s) == SortByKeys(s, [k \in DOMAIN s |-> s[k].fitness])
SortByTime(s) == SortByKeys(s, [k \in DOMAIN s |-> s[k].time])

\* Array.from(individual.trains.values()): the schedules in the Map's
\* insertion order, which is the order of the `trains` argument.
TrainSchedules(individual, order) == [k \in DOMAIN order |-> individual.trains[order[k]]]

\* detectConflicts: walks every stop of every schedule and counts those whose
\* key `${stationId}_${arrivalTime}` was already entered by an earlier stop.
RECURSIVE CountSeenKeys(_, _, _)
CountSeenKeys(keys, seen, conflicts) ==
    IF keys = <<>> THEN conflicts
    ELSE IF Head(keys) \in seen THEN CountSeenKeys(Tail(keys), seen, conflicts + 1)
    ELSE CountSeenKeys(Tail(keys), seen \cup {Head(keys)}, conflicts)

detectConflicts(individual, order, h) ==
    LET schedules == TrainSchedules(individual, order)
        keys == Flatten([k \in DOMAIN schedules |->
                    [n \in DOMAIN h[schedules[k].stations] |->
                        <<h[schedules[k].stations][n].stationId,
                          h[schedules[k].stations][n].arrivalTime>>]])
    IN  CountSeenKeys(keys, {}, 0)

\* evaluateFitness: total weighted delay plus 1000 per conflict.
evaluateFitness(individual, order, h) ==
    LET schedules == TrainSchedules(individual, order)
        trainDelay(sch) ==
            SumSeq([n \in DOMAIN h[sch.stations] |->
                       Max(0, h[sch.stations][n].departureTime - h[sch.stations][n].arrivalTime)])
        totalWeightedDelay ==
            SumSeq([k \in DOMAIN schedules |->
                       trainDelay(schedules[k]) * (6 - schedules[k].priority)])
    IN  totalWeightedDelay + detectConflicts(individual, order, h) * 1000

\* tournamentSelection: the individuals it can return, one per way of drawing
\* tournamentSize random indexes; the tournament is sorted by fitness and its
\* first entry returned.
Tournaments(pop) == [1..TournamentSize -> DOMAIN pop]

TournamentWinners(pop, tournaments) ==
    {SortByFitness([k \in 1..TournamentSize |-> pop[picks[k]]])[1] : picks \in tournaments}

tournamentSelection(pop) == TournamentWinners(pop, Tournaments(pop))

\* crossover: single point at floor(trainIds.length / 2); the children keep
\* their parents' other fields and share the parents' schedule objects.
crossover(parent1, parent2, order) ==
    LET crossoverPoint == Len(order) \div 2
        pos(t) == CHOOSE k \in DOMAIN order : order[k] = t
    IN  << [parent1 EXCEPT !.trains =
                [t \in Range(order) |-> IF pos(t) - 1 < crossoverPoint
                                        THEN parent1.trains[t] ELSE parent2.trains[t]]],
           [parent2 EXCEPT !.trains =
                [t \in Range(order) |-> IF pos(t) - 1 < crossoverPoint
                                        THEN parent2.trains[t] ELSE parent1.trains[t]]] >>

\* The random choices of one mutate call: none (the call is not made), or a
\* train, a stop index and an adjustment.  With no trains the pick is
\* undefined and mutate changes nothing.
NoMutation == [apply |-> FALSE, train |-> 0, stop |-> 0, adjustment |-> 0]

MutationChoices(order) ==
    {NoMutation} \cup
    [apply : {TRUE}, train : Range(order), stop : DOMAIN RouteStations, adjustment : MutAdjust]

\* mutate: moves one stop of one schedule of the individual, in place.
mutate(h, individual, m) ==
    IF ~m.apply \/ m.train \notin DOMAIN individual.trains THEN h
    ELSE LET ref == individual.trains[m.train].stations
         IN  IF m.stop \notin DOMAIN h[ref] THEN h
             ELSE [h EXCEPT ![ref][m.stop] = ShiftStop(@, m.adjustment)]

\* checkTrainConflicts and checkPlatformCapacity return empty lists.
checkTrainConflicts(schedule1, schedule2) == <<>>
checkPlatformCapacity(trainSchedules) == <<>>

\* detectConstraintViolations: every pair's conflicts (i < j), then the
\* platform ones.
detectConstraintViolations(individual, order) ==
    LET schedules == TrainSchedules(individual, order)
        n == Len(schedules)
    IN  Flatten([i \in 1..n |->
                    Flatten([j \in 1..(n - i) |->
                                checkTrainConflicts(schedules[i], schedules[i + j])])])
        \o checkPlatformCapacity(schedules)

\* applyConstraintProgramming: resolveConstraintViolation only logs, so the
\* result is the copy { ...schedule } whatever the violations are.
applyConstraintProgramming(individual, order) ==
    LET violations == detectConstraintViolations(individual, order)
    IN  individual

\* runDiscreteEventSimulation: the sorted event list and the metrics.
StopEvents(sch, h) ==
    Flatten([n \in DOMAIN h[sch.stations] |->
        LET stop == h[sch.stations][n]
            arrival == [type |-> "ARRIVAL", time |-> stop.arrivalTime,
                        trainId |-> sch.trainId, stationId |-> stop.stationId]
            departure == [type |-> "DEPARTURE", time |-> stop.departureTime,
                          trainId |-> sch.trainId, stationId |-> stop.stationId]
        IN  IF stop.isHalt THEN <<arrival, departure>> ELSE <<arrival>>])

runDiscreteEventSimulation(individual, order, h) ==
    LET schedules == TrainSchedules(individual, order)
        events == SortByTime(Flatten([k \in DOMAIN schedules |-> StopEvents(schedules[k], h)]))
        \* expectedTime and actualTime are both event.time
        delays == [n \in DOMAIN events |->
                      IF events[n].type = "ARRIVAL"
                      THEN Max(0, events[n].time - events[n].time) ELSE 0]
        totalDelay == SumSeq(delays)
        onTimeCount == Cardinality({n \in DOMAIN events :
                                       events[n].type = "ARRIVAL" /\ delays[n] <= 5})
    IN  [events |-> events,
         averageDelay |-> JsDivide(totalDelay, Len(schedules)),
         onTimePerformance |-> JsPercent(onTimeCount, Len(events)),
         conflicts |-> detectConflicts(individual, order, h)]

\* The random halt decisions that can matter: shouldTrainHalt draws only at
\* intermediate stations.
DrawChoices ==
    {d \in [DOMAIN RouteStations -> BOOLEAN] : ~d[1] /\ ~d[Len(RouteStations)]}

\* initializePopulation: populationSize individuals, each with a fresh
\* random schedule (and stations array) per train; the stations arrays and
\* the population.
initializePopulation(populationSize, trains, departures, draws) ==
    LET n == Len(trains)
        ref(i, k) == (i - 1) * n + k
        gen(i, k) == generateRandomTrainSchedule(Train(trains[k]), departures[i][k], draws[i][k])
    IN  [heap |-> [r \in 1..(populationSize * n) |->
                      gen(((r - 1) \div n) + 1, ((r - 1) % n) + 1).stops],
         population |->
             [i \in 1..populationSize |->
                 [id |-> i,
                  trains |-> [t \in Range(trains) |->
                                 LET k == CHOOSE k \in 1..n : trains[k] = t
                                 IN  ScheduleObject(gen(i, k), ref(i, k))],
                  fitness |-> 0,
                  conflicts |-> 0]]]

\* generateOptimalSchedule up to the genetic algorithm.
OptStart(trains, departures, draws) ==
    /\ optPc = "idle"
    /\ LET initial == initializePopulation(PopSize, trains, departures, draws)
       IN  /\ heap' = initial.heap
           /\ population' = initial.population
    /\ optTrains' = trains
    /\ newPopulation' = <<>>
    /\ generation' = 0
    /\ optPc' = "evaluate"
    /\ UNCHANGED <<currentSchedule, calls, optResult, hubVars,
                   scenarioVars, detectionVars, trafficVars>>

\* runGeneticAlgorithm, the head of one generation: evaluate every
\* individual, sort by fitness, copy the elite (top 20%).
GAGenerationStart ==
    /\ optPc = "evaluate"
    /\ LET evaluated == [i \in DOMAIN population |->
                            [population[i] EXCEPT
                                !.fitness = evaluateFitness(population[i], optTrains, heap)]]
           sorted == SortByFitness(evaluated)
           eliteCount == (Len(sorted) * 2) \div 10
       IN  /\ population' = sorted
           /\ newPopulation' = SubSeq(sorted, 1, eliteCount)
    /\ optPc' = "offspring"
    /\ UNCHANGED <<currentSchedule, heap, calls, optTrains, generation, optResult, hubVars,
                   scenarioVars, detectionVars, trafficVars>>

\* One iteration of the offspring loop, the parents being any of `winners`.
Offspring(winners) ==
    /\ optPc = "offspring"
    /\ Len(newPopulation) < Len(population)
    /\ \E parent1 \in winners,
          parent2 \in winners,
          doCrossover \in BOOLEAN :
          IF doCrossover
          THEN \E m1 \in MutationChoices(optTrains), m2 \in MutationChoices(optTrains) :
                  LET children == crossover(parent1, parent2, optTrains)
                      pushed == Append(newPopulation, children[1])
                  IN  /\ heap' = mutate(mutate(heap, children[1], m1), children[2], m2)
                      /\ newPopulation' = IF Len(pushed) < Len(population)
                                          THEN Append(pushed, children[2])
                                          ELSE pushed
          ELSE /\ newPopulation' = Append(newPopulation, parent1)
               /\ UNCHANGED heap
    /\ UNCHANGED <<currentSchedule, calls, optPc, optTrains, population, generation, optResult, hubVars,
                   scenarioVars, detectionVars, trafficVars>>

GAOffspring == Offspring(tournamentSelection(population))

\* A generation loop that replaces the population without counting the
\* generation, for comparison with GenerationEnd.
GenerationEndUncounted(generations) ==
    /\ optPc = "offspring"
    /\ Len(newPopulation) >= Len(population)
    /\ population' = newPopulation
    /\ optPc' = "evaluate"
    /\ UNCHANGED <<currentSchedule, heap, calls, optTrains, newPopulation, generation,
                   optResult, hubVars, scenarioVars, detectionVars, trafficVars>>

\* The end of one generation of a run of `generations` generations:
\* population.splice(0, length, ...newPopulation).
GenerationEnd(generations) ==
    /\ optPc = "offspring"
    /\ Len(newPopulation) >= Len(population)
    /\ population' = newPopulation
    /\ generation' = generation + 1
    /\ optPc' = IF generation + 1 < generations THEN "evaluate" ELSE "simulate"
    /\ UNCHANGED <<currentSchedule, heap, calls, optTrains, newPopulation, optResult, hubVars,
                   scenarioVars, detectionVars, trafficVars>>

GAGenerationEnd == GenerationEnd(Generations)

\* generateOptimalSchedule after the genetic algorithm: constraint
\* programming on population[0], the simulation, and the returned object.
OptFinish ==
    /\ optPc = "simulate"
    /\ LET optimizedSchedule == population[1]
           feasibleSchedule == applyConstraintProgramming(optimizedSchedule, optTrains)
       IN  optResult' = [schedule |-> feasibleSchedule,
                         performance |->
                             runDiscreteEventSimulation(feasibleSchedule, optTrains, heap)]
    /\ optPc' = "done"
    /\ UNCHANGED <<currentSchedule, heap, calls, optTrains, population, newPopulation,
                   generation, hubVars, scenarioVars, detectionVars, trafficVars>>

\* A handleRealTimeUpdate call for one of the optimized trains, made after
\* generateOptimalSchedule has returned.
InvokeAfterOptimize(t, d) ==
    /\ optPc = "done"
    /\ t \in Range(optTrains)
    /\ InvokeAlone(1, t, d, <<>>)

\* The state after construction: no schedule is stored.
InitOpt ==
    /\ currentSchedule = <<>>
    /\ heap = <<>>
    /\ calls = [c \in CallIds |-> IdleCall]
    /\ OptimizerIdle
    /\ HubIdle
    /\ NoRequests
    /\ DetectionOn
    /\ TrafficOptimizerIdle

OptNext ==
    \/ \E trains \in OptTrainLists :
          \E departures \in [1..PopSize -> [DOMAIN trains -> DepTimes]],
             draws \in [1..PopSize -> [DOMAIN trains -> DrawChoices]] :
             OptStart(trains, departures, draws)
    \/ GAGenerationStart
    \/ GAOffspring
    \/ GAGenerationEnd
    \/ OptFinish
    \/ \E t \in TrainIds, d \in Delays : InvokeAfterOptimize(t, d)
    \/ \E c \in CallIds : Respond(c)

SpecOpt == InitOpt /\ [][OptNext]_vars

(***************************************************************************)
(* runGeneticAlgorithm on its own, on populations of GaPopSize individuals *)
(* (so that the top 20% is one individual) for GaGenerations generations.  *)
(***************************************************************************)
GaPopSize == 5
GaGenerations == 2

\* The populations of GaPopSize individuals with the trains 1 and 2, no halt
\* but at the origin and destination: train 1 leaves at 0; train 2 leaves at
\* 3 in the first individual and at one time of DepTimes in all the others.
GaDepartures ==
    {d \in [1..GaPopSize -> [1..2 -> DepTimes]] :
        /\ \A i \in 1..GaPopSize : d[i][1] = 0
        /\ d[1][2] = 3
        /\ \A i, j \in 2..GaPopSize : d[i][2] = d[j][2]}

GaPopulations ==
    {initializePopulation(GaPopSize, <<1, 2>>, d,
                          [i \in 1..GaPopSize |-> [k \in 1..2 |-> NoDraws]]) :
        d \in GaDepartures}

\* The populations of 1 to GaPopSize individuals with no train, and those of
\* GaPopSize individuals with train 1 alone, leaving at a time of DepTimes
\* in the first individual and at 0 in the others.
SmallPopulations ==
    {initializePopulation(size, <<>>, <<>>, <<>>) : size \in 1..GaPopSize}
    \cup {initializePopulation(GaPopSize, <<1>>,
                               [i \in 1..GaPopSize |-> <<IF i = 1 THEN dep ELSE 0>>],
                               [i \in 1..GaPopSize |-> <<NoDraws>>]) :
             dep \in DepTimes}

\* runGeneticAlgorithm called on one of the populations of P.
GaCalledOn(P) ==
    /\ currentSchedule = <<>>
    /\ calls = [c \in CallIds |-> IdleCall]
    /\ HubIdle
    /\ NoRequests
    /\ DetectionOn
    /\ TrafficOptimizerIdle
    /\ \E initial \in P :
          /\ heap = initial.heap
          /\ population = initial.population
          /\ optTrains = [k \in 1..(Len(initial.heap) \div Len(initial.population)) |-> k]
    /\ newPopulation = <<>>
    /\ generation = 0
    /\ optResult = <<>>
    /\ optPc = "evaluate"

GaInit == GaCalledOn(GaPopulations)

GaGenerationEnd == GenerationEnd(GaGenerations)

\* The offspring loop when the first draw of every tournament is index 0:
\* the population is sorted, so that draw wins.
GaOffspring ==
    Offspring(TournamentWinners(population,
                                {picks \in Tournaments(population) : picks[1] = 1}))

GaNext ==
    \/ GAGenerationStart
    \/ GaOffspring
    \/ GaGenerationEnd

SpecGA == GaInit /\ [][GaNext]_vars

\* The loops of runGeneticAlgorithm go on: none of its awaits waits for
\* anything.
GaSmallInit == GaCalledOn(SmallPopulations)

SpecGAFair ==
    /\ GaSmallInit
    /\ [][GaNext]_vars
    /\ WF_vars(GAGenerationStart) /\ WF_vars(GaOffspring) /\ WF_vars(GaGenerationEnd)

(***************************************************************************)
(* generateRandomTrainSchedule on its own: one train of any of the five    *)
(* types on a route of 2 to MaxStations stations.                          *)
(***************************************************************************)
MaxStations == 5

AllTrainIds == 1..Len(TrainTypes)

\* A route of n stations, StationSpacing km apart.
StationSpacing == 88

RouteOf(n) ==
    [k \in 1..n |-> [station |-> k, sequence |-> k,
                     distanceFromStart |-> StationSpacing * (k - 1)]]

\* The random halt decisions on a route of n stations.
DrawChoicesOn(n) == {d \in [1..n -> BOOLEAN] : ~d[1] /\ ~d[n]}

\* initializePopulation for one individual and the one train t, on a route
\* of n stations: the stations array and the population.
OneTrainPopulation(t, n, departure, draws) ==
    LET g == ScheduleOnRoute(Train(t), RouteOf(n), departure, draws)
    IN  [heap |-> <<g.stops>>,
         population |-> << [id |-> 1,
                            trains |-> [x \in {t} |-> ScheduleObject(g, 1)],
                            fitness |-> 0,
                            conflicts |-> 0] >>]

GenerateOne(t, n, departure, draws) ==
    /\ optPc = "idle"
    /\ LET initial == OneTrainPopulation(t, n, departure, draws)
       IN  /\ heap' = initial.heap
           /\ population' = initial.population
    /\ optTrains' = <<t>>
    /\ UNCHANGED <<currentSchedule, calls, optPc, newPopulation, generation, optResult,
                   hubVars, scenarioVars, detectionVars, trafficVars>>

GenerateSchedule ==
    \E t \in AllTrainIds, n \in 2..MaxStations, departure \in DepTimes :
        \E draws \in DrawChoicesOn(n) : GenerateOne(t, n, departure, draws)

GenNext == GenerateSchedule

SpecGen == InitOpt /\ [][GenNext]_vars

(***************************************************************************)
(* runDiscreteEventSimulation on its own, on the schedule of one train of  *)
(* any type on a route of 2 to MaxStations stations.                       *)
(***************************************************************************)
SimInit ==
    /\ currentSchedule = <<>>
    /\ calls = [c \in CallIds |-> IdleCall]
    /\ HubIdle
    /\ NoRequests
    /\ DetectionOn
    /\ TrafficOptimizerIdle
    /\ \E t \in AllTrainIds, n \in 2..MaxStations, departure \in DepTimes :
          \E draws \in DrawChoicesOn(n) :
             LET initial == OneTrainPopulation(t, n, departure, draws)
             IN  /\ heap = initial.heap
                 /\ population = initial.population
                 /\ optTrains = <<t>>
    /\ newPopulation = <<>>
    /\ generation = 0
    /\ optResult = <<>>
    /\ optPc = "simulate"

SimNext == OptFinish

SpecSim == SimInit /\ [][SimNext]_vars

(***************************************************************************)
(* Properties of the Reconciler.                                           *)
(***************************************************************************)
StopsOf(store, h, t) == h[store[t].stations]

\* Every stop of train t is later by exactly `minutes` in (store2, h2) than in
\* (store1, h1).
ShiftedBy(store1, h1, store2, h2, t, minutes) ==
    LET a == StopsOf(store1, h1, t)
        b == StopsOf(store2, h2, t)
    IN  /\ Len(a) = Len(b)
        /\ \A k \in DOMAIN a :
              /\ b[k].arrivalTime = a[k].arrivalTime + minutes
              /\ b[k].departureTime = a[k].departureTime + minutes

\* Two stops are at the same station during overlapping time windows.
Overlap(s1, s2) ==
    /\ s1.stationId = s2.stationId
    /\ s1.arrivalTime <= s2.departureTime
    /\ s2.arrivalTime <= s1.departureTime

ConflictingStops(stopsX, stopsY) ==
    {p \in (DOMAIN stopsX) \X (DOMAIN stopsY) : Overlap(stopsX[p[1]], stopsY[p[2]])}

\* Invocation c returns in this step.
Completes(c) == InFlight(c) /\ calls'[c].pc = "done"

\* C1: after a successful handleRealTimeUpdate(X, position, d, affected), for
\* any affected list, every stop of X's stored schedule is later by exactly d
\* minutes than before the call and its totalDelay is larger by exactly d.
C1_ShiftAndAccumulate ==
    [][\A c \in CallIds :
          Completes(c) =>
              LET cr == calls'[c]
                  X == cr.trainId
              IN  /\ ShiftedBy(cr.pre.currentSchedule, cr.pre.heap,
                               currentSchedule', heap', X, cr.currentDelay)
                  /\ currentSchedule'[X].totalDelay =
                         cr.pre.currentSchedule[X].totalDelay + cr.currentDelay]_vars

\* The two invocations overlapped: c2 was called while c1 was suspended.
CalledDuring(c1, c2) == c1 \in calls[c2].concurrentWith

OthersQuiet(c1, c2) ==
    \A o \in CallIds \ {c1, c2} : calls[o].pc = "idle"

\* C2: when two handleRealTimeUpdate calls for the same train, with delays d1
\* and d2, overlap, then after both have finished the train's stored schedule
\* has totalDelay increased by d1 + d2 and every stop shifted by d1 + d2.
\* (Stated for calls that do not list their own train as affected, so that
\* what is lost is lost by the overlap alone.)
C2_OverlappingCallsSerialize ==
    \A c1 \in CallIds, c2 \in CallIds :
        ( /\ c1 # c2
          /\ calls[c1].pc = "done" /\ calls[c2].pc = "done"
          /\ calls[c1].trainId = calls[c2].trainId
          /\ CalledDuring(c1, c2)
          /\ OthersQuiet(c1, c2)
          /\ calls[c1].trainId \notin
                 Range(calls[c1].affectedTrains) \cup Range(calls[c2].affectedTrains) )
        => LET X == calls[c1].trainId
               before == calls[c1].pre
               sum == calls[c1].currentDelay + calls[c2].currentDelay
           IN  /\ currentSchedule[X].totalDelay = before.currentSchedule[X].totalDelay + sum
               /\ ShiftedBy(before.currentSchedule, before.heap, currentSchedule, heap, X, sum)

\* C3: when a call for train A that lists B as affected overlaps a call that
\* reports a delay d for B, then after both have finished B's stored schedule
\* still has its totalDelay increased by d.
C3_RepairKeepsOtherDelay ==
    \A cA \in CallIds, cB \in CallIds :
        ( /\ cA # cB
          /\ calls[cA].pc = "done" /\ calls[cB].pc = "done"
          /\ calls[cA].trainId # calls[cB].trainId
          /\ calls[cB].trainId \in Range(calls[cA].affectedTrains)
          /\ calls[cB].trainId \notin Range(calls[cB].affectedTrains)
          /\ CalledDuring(cA, cB) \/ CalledDuring(cB, cA)
          /\ OthersQuiet(cA, cB) )
        => LET B == calls[cB].trainId
               before == IF CalledDuring(cA, cB) THEN calls[cA].pre ELSE calls[cB].pre
           IN  currentSchedule[B].totalDelay =
                  before.currentSchedule[B].totalDelay + calls[cB].currentDelay

\* C7: for every train and every sequence of handleRealTimeUpdate calls with
\* any delay values the interface accepts, the totalDelay of its stored
\* schedule is never negative and never decreases.
C7_DelayMonotone ==
    [][\A t \in DOMAIN currentSchedule :
          /\ currentSchedule'[t].totalDelay >= currentSchedule[t].totalDelay
          /\ currentSchedule'[t].totalDelay >= 0]_vars

\* X's shift made two stops of X and Y overlap that did not overlap before.
NewConflict(cr, X, Y) ==
    ConflictingStops(StopsOf(currentSchedule', heap', X), StopsOf(cr.pre.currentSchedule, cr.pre.heap, Y))
        \ ConflictingStops(StopsOf(cr.pre.currentSchedule, cr.pre.heap, X),
                           StopsOf(cr.pre.currentSchedule, cr.pre.heap, Y)) # {}

\* C8: in handleRealTimeUpdate(X, position, d, affected), an affected train Y
\* other than X whose schedule got no new conflict with X's shifted schedule
\* has the same stop times and totalDelay after the call as before it.
C8_AffectedUnchangedWithoutConflict ==
    [][\A c \in CallIds :
          Completes(c) =>
              LET cr == calls'[c]
                  X == cr.trainId
              IN  \A Y \in Range(cr.affectedTrains) \ {X} :
                      (HasSchedule(cr.pre.currentSchedule, Y) /\ ~NewConflict(cr, X, Y)) =>
                          /\ ShiftedBy(cr.pre.currentSchedule, cr.pre.heap,
                                       currentSchedule', heap', Y, 0)
                          /\ currentSchedule'[Y].totalDelay =
                                 cr.pre.currentSchedule[Y].totalDelay]_vars

\* A call with a positive delay has returned; it listed a stored train Y other
\* than X, and X's shifted stops overlap no stop of Y.
C8_Witness ==
    \E c \in CallIds :
        /\ calls[c].pc = "done"
        /\ calls[c].currentDelay > 0
        /\ \E Y \in Range(calls[c].affectedTrains) \ {calls[c].trainId} :
              /\ HasSchedule(currentSchedule, Y)
              /\ ConflictingStops(StopsOf(currentSchedule, heap, calls[c].trainId),
                                  StopsOf(currentSchedule, heap, Y)) = {}

\* C9: handleRealTimeUpdate for a train identifier that has no stored schedule
\* throws 'No schedule found', the caller is answered with that failure, and
\* every stored schedule (stop times and totalDelay of every train) is as it
\* was before the call.
C9_NotFoundLeavesStore ==
    [][\A c \in CallIds :
          /\ (calls[c].pc = "idle" /\ calls'[c].pc # "idle"
                 /\ ~HasSchedule(currentSchedule, calls'[c].trainId)) =>
                 /\ calls'[c].pc = "thrown"
                 /\ calls'[c].error = "No schedule found"
                 /\ currentSchedule' = currentSchedule
                 /\ heap' = heap
          /\ (calls[c].pc = "thrown" /\ calls'[c].pc # "thrown") =>
                 /\ calls'[c].response.success = FALSE
                 /\ calls'[c].response.message = "No schedule found"
                 /\ currentSchedule' = calls[c].pre.currentSchedule
                 /\ heap' = calls[c].pre.heap]_vars

\* A call for an unknown train was rejected and answered while schedules of
\* other trains are stored.
C9_Witness ==
    \E c \in CallIds :
        /\ calls[c].pc = "answered"
        /\ calls[c].response.message = "No schedule found"
        /\ currentSchedule # <<>>

(***************************************************************************)
(* Properties of the Optimizer.                                            *)
(***************************************************************************)
\* Two different trains of the individual are at the same station during
\* overlapping [arrival, departure] windows.
StationOverlap(individual, h) ==
    \E t1 \in DOMAIN individual.trains, t2 \in DOMAIN individual.trains :
        /\ t1 # t2
        /\ ConflictingStops(h[individual.trains[t1].stations],
                            h[individual.trains[t2].stations]) # {}

\* C4: in every schedule returned by generateOptimalSchedule (after constraint
\* repair has run), no two different trains occupy the same station during
\* overlapping [arrival, departure] time windows.
C4_ReturnedScheduleConflictFree ==
    optPc = "done" => ~StationOverlap(optResult.schedule, heap)

\* C5: the residual conflict count of the result's performance metrics is
\* zero only if no two trains of the returned schedule are at the same
\* station during overlapping time windows.
C5_ZeroCountMeansNoOverlap ==
    (optPc = "done" /\ optResult.performance.conflicts = 0)
        => ~StationOverlap(optResult.schedule, heap)

\* C6: after generateOptimalSchedule completes for a non-empty set of trains,
\* the schedule store holds a schedule for each of them, getOptimizationStatus
\* reports that many active schedules, and a following handleRealTimeUpdate
\* for any of them does not fail with 'No schedule found'.
C6_OptimizerSeedsStore ==
    (optPc = "done" /\ optTrains # <<>>) =>
        /\ \A t \in Range(optTrains) : HasSchedule(currentSchedule, t)
        /\ activeSchedules = Len(optTrains)
        /\ \A c \in CallIds : calls[c].pc # "thrown"
        /\ \A c \in CallIds : calls[c].pc = "answered" => calls[c].response.success

\* C10: generateOptimalSchedule called with zero trains returns a schedule
\* with zero train entries whose on-time percentage and average delay are
\* numbers, never the result of a division by zero.
C10_ZeroTrainsDefinedMetrics ==
    (optPc = "done" /\ optTrains = <<>>) =>
        /\ DOMAIN optResult.schedule.trains = {}
        /\ optResult.performance.onTimePerformance.kind = "number"
        /\ optResult.performance.averageDelay.kind = "number"

(***************************************************************************)
(* The Real-Time Data Hub (services/RealTimeDataHub.js): the Telemetry     *)
(* Normalizer, the State Estimator and the Conflict Detector.              *)
(*                                                                         *)
(* Numbers.  Readings, the initial estimate (lat 0, lon 0) and the         *)
(* junction lie on one meridian, along which calculateDistance is the      *)
(* earth's radius times the difference of the latitudes.  A latitude is a  *)
(* whole number of steps of 0.2 km of arc / FixScale, a speed a whole      *)
(* number of steps of 0.2 km/h / FixScale; FixScale keeps MaxFusions       *)
(* updates with the gain 10/13 exact.  A quality or confidence is a whole  *)
(* number of thousandths.  NaN and Infinity are values of their own.       *)
(***************************************************************************)
RECURSIVE Pow(_, _)
Pow(b, n) == IF n = 0 THEN 1 ELSE b * Pow(b, n - 1)

Min(a, b) == IF a <= b THEN a ELSE b

\* covariance / (covariance + measurementNoise), as <<numerator, denominator>>.
calculateKalmanGain(covariance, measurementNoise) ==
    <<covariance, covariance + measurementNoise>>

initializeKalmanFilter(trainId) ==
    [trainId |-> trainId,
     state |-> [position |-> [lat |-> JsNumber(0), lon |-> JsNumber(0)],
                velocity |-> [speed |-> JsNumber(0), heading |-> JsNumber(0)],
                acceleration |-> 0],
     covariance |-> [position |-> 10, velocity |-> 5, acceleration |-> 2],
     measurementNoise |-> [gps |-> 3, trackCircuit |-> 50, stationReport |-> 100]]

\* The gain of a GPS update, the same for every update: the code never
\* changes an estimator's covariance.
GpsGain ==
    LET e == initializeKalmanFilter(0)
    IN  calculateKalmanGain(e.covariance.position, e.measurementNoise.gps)

FixScale == Pow(GpsGain[2], MaxFusions - 1)

\* A field of a raw reading: given with a value, or missing (undefined).
Given(v) == [present |-> TRUE, val |-> v]
Undefined == [present |-> FALSE, val |-> 0]

\* The `timestamp` field of a raw reading: missing, unparsable, or a time
\* `age` seconds before the reading is received.
TimeAgo(age) == [present |-> TRUE, valid |-> TRUE, age |-> age]
TimeInvalid == [present |-> TRUE, valid |-> FALSE, age |-> 0]
TimeMissing == [present |-> FALSE, valid |-> FALSE, age |-> 0]

\* parseFloat of a numeric field: the number, NaN for undefined.
parseFloat(field) == IF field.present THEN JsNumber(field.val * FixScale) ELSE JsNaN

\* new Date(raw.timestamp || Date.now()), in seconds relative to the receipt.
ReadingTimestamp(ts) ==
    IF ~ts.present THEN JsNumber(0)
    ELSE IF ts.valid THEN JsNumber(-ts.age) ELSE JsNaN

\* quality *= factor, factor in tenths.
Degrade(quality, cond, tenths) == IF cond THEN (quality * tenths) \div 10 ELSE quality

calculateGPSQuality(gpsData) ==
    LET q1 == Degrade(1000, gpsData.accuracy.present /\ gpsData.accuracy.val > 10, 8)
        q2 == Degrade(q1, gpsData.accuracy.present /\ gpsData.accuracy.val > 50, 6)
        \* speed > 200 km/h, the raw speed being in steps of 0.2 km/h
        q3 == Degrade(q2, gpsData.speed.present /\ gpsData.speed.val > 200 * 5, 5)
        \* age = Date.now() - new Date(gpsData.timestamp).getTime(): NaN when
        \* the timestamp is missing or unparsable, and NaN > 30000 is false
        q4 == Degrade(q3, gpsData.timestamp.present /\ gpsData.timestamp.valid
                             /\ gpsData.timestamp.age * 1000 > 30000, 7)
    IN  Max(100, q4)

calculateCircuitQuality(circuitData) ==
    LET q1 == Degrade(1000, circuitData.status = "UNKNOWN", 3)
        q2 == Degrade(q1, circuitData.occupied.present /\ circuitData.occupied.val = 1
                             /\ circuitData.signalState = "GREEN", 5)
    IN  Max(100, q2)

calculateStationReportQuality(reportData) ==
    LET q1 == Degrade(1000, reportData.event = "" \/ reportData.trainId = 0, 5)
        q2 == Degrade(q1, reportData.delay.present /\ reportData.delay.val > 480, 7)
        q3 == Degrade(q2, ~reportData.stationMaster, 8)
    IN  Max(100, q3)

\* The normalizedData objects of the three ingest methods.  trainId 0 stands
\* for a missing train identity.
NormalizeGPS(trainId, gpsData) ==
    [trainId |-> trainId,
     source |-> "GPS",
     timestamp |-> ReadingTimestamp(gpsData.timestamp),
     position |-> [latitude |-> parseFloat(gpsData.lat),
                   longitude |-> parseFloat(gpsData.lon)],
     speed |-> IF gpsData.speed.present THEN parseFloat(gpsData.speed) ELSE JsNumber(0),
     quality |-> calculateGPSQuality(gpsData)]

NormalizeTrackCircuit(sectionId, circuitData) ==
    [trainId |-> 0,
     source |-> "TRACK_CIRCUIT",
     sectionId |-> sectionId,
     timestamp |-> ReadingTimestamp(circuitData.timestamp),
     occupied |-> circuitData.status = "OCCUPIED",
     trainDetected |-> circuitData.trainId,
     signalState |-> IF circuitData.signalState = "" THEN "GREEN"
                     ELSE circuitData.signalState,
     quality |-> calculateCircuitQuality(circuitData)]

NormalizeStationReport(stationId, reportData) ==
    [trainId |-> reportData.trainId,
     source |-> "STATION_REPORT",
     stationId |-> stationId,
     timestamp |-> ReadingTimestamp(reportData.timestamp),
     event |-> reportData.event,
     delay |-> IF reportData.delay.present THEN reportData.delay.val ELSE 0,
     quality |-> calculateStationReportQuality(reportData)]

(***************************************************************************)
(* State estimation.                                                       *)
(***************************************************************************)
\* x + weight * (m - x) in JavaScript arithmetic: NaN when x or m is NaN.
Blend(x, m, weight) ==
    IF x.kind # "number" \/ m.kind # "number" THEN JsNaN
    ELSE JsNumber(((weight[2] - weight[1]) * x.val + weight[1] * m.val) \div weight[2])

updateWithGPS(state, gpsData, estimator) ==
    LET weight == calculateKalmanGain(estimator.covariance.position,
                                      estimator.measurementNoise.gps)
    IN  [state EXCEPT
            !.position = [lat |-> Blend(state.position.lat, gpsData.position.latitude, weight),
                          lon |-> Blend(state.position.lon, gpsData.position.longitude, weight)],
            !.velocity.speed = Blend(state.velocity.speed, gpsData.speed, weight)]

\* getTrackSectionPosition and getStationPosition are async and are called
\* without await: what the update methods take for a position is a pending
\* promise, which is truthy and whose lat and lon are undefined.
PromiseCoordinate == JsNaN

updateWithTrackCircuit(state, circuitData, estimator) ==
    IF circuitData.occupied /\ circuitData.trainDetected # 0
    THEN LET weight == calculateKalmanGain(estimator.covariance.position,
                                           estimator.measurementNoise.trackCircuit)
         IN  [state EXCEPT
                 !.position = [lat |-> Blend(state.position.lat, PromiseCoordinate, weight),
                               lon |-> Blend(state.position.lon, PromiseCoordinate, weight)]]
    ELSE state

updateWithStationReport(state, reportData, estimator) ==
    LET weight == calculateKalmanGain(estimator.covariance.position,
                                      estimator.measurementNoise.stationReport)
    IN  [state EXCEPT
            !.position = [lat |-> Blend(state.position.lat, PromiseCoordinate, weight),
                          lon |-> Blend(state.position.lon, PromiseCoordinate, weight)],
            !.velocity.speed = IF reportData.event \in {"ARRIVAL", "DEPARTURE"}
                               THEN JsNumber(0) ELSE state.velocity.speed]

\* The confidence in thousandths.
calculateConfidenceSummed(estimator) ==
    LET positionConfidence == 1000 - Min((estimator.covariance.position * 1000) \div 100, 1000)
        velocityConfidence == 1000 - Min((estimator.covariance.velocity * 1000) \div 50, 1000)
    IN  positionConfidence + velocityConfidence

calculateConfidence(estimator) ==
    LET positionConfidence == 1000 - Min((estimator.covariance.position * 1000) \div 100, 1000)
        velocityConfidence == 1000 - Min((estimator.covariance.velocity * 1000) \div 50, 1000)
    IN  (positionConfidence + velocityConfidence) \div 2

\* The loop of fuseDataSources over newDataArray.
RECURSIVE FuseLoop(_, _, _)
FuseLoop(fusedState, newDataArray, estimator) ==
    IF newDataArray = <<>> THEN fusedState
    ELSE LET data == Head(newDataArray)
             next == CASE data.source = "GPS" -> updateWithGPS(fusedState, data, estimator)
                       [] data.source = "TRACK_CIRCUIT" ->
                              updateWithTrackCircuit(fusedState, data, estimator)
                       [] data.source = "STATION_REPORT" ->
                              updateWithStationReport(fusedState, data, estimator)
                       [] OTHER -> fusedState
         IN  FuseLoop(next, Tail(newDataArray), estimator)

\* fuseDataSources: the estimator with its state updated, and the fused
\* state it returns.
fuseDataSources(estimator, newDataArray) ==
    LET fusedState == FuseLoop(estimator.state, newDataArray, estimator)
        updated == [estimator EXCEPT !.state = fusedState]
    IN  [estimator |-> updated,
         fusedState |-> [trainId |-> estimator.trainId,
                         position |-> fusedState.position,
                         speed |-> fusedState.velocity.speed,
                         heading |-> fusedState.velocity.heading,
                         confidence |-> calculateConfidence(updated)]]

calculateOverallQuality(dataArray) ==
    IF dataArray = <<>> THEN 0
    ELSE SumSeq([k \in DOMAIN dataArray |-> dataArray[k].quality]) \div Len(dataArray)

\* this.trainDataBuffers is never created: the buffer read is always empty.
getTrainDataBuffer(trainId) == <<>>

\* Map.prototype.set on activeTrains: a new key goes last, a known key keeps
\* its place.
MapSet(list, trainId, value) ==
    IF \E k \in DOMAIN list : list[k].trainId = trainId
    THEN [k \in DOMAIN list |-> IF list[k].trainId = trainId THEN value ELSE list[k]]
    ELSE Append(list, value)

\* d.timestamp.getTime() > Date.now() - 5 * 60 * 1000
IsRecent(d) == d.timestamp.kind = "number" /\ d.timestamp.val * 1000 > -(5 * 60 * 1000)

\* processNormalizedData with the updateTrainState it awaits.  None of their
\* awaits waits for input or output, so the whole runs before any other
\* handler or timer callback does.
processNormalizedData(data) ==
    IF data.trainId # 0
    THEN LET trainId == data.trainId
             existingData == Append(getTrainDataBuffer(trainId), data)
             recentData == SelectSeq(existingData, IsRecent)
             estimator == IF trainId \in DOMAIN stateEstimators
                          THEN stateEstimators[trainId]
                          ELSE initializeKalmanFilter(trainId)
             fused == fuseDataSources(estimator, recentData)
             fusedState == fused.fusedState
         IN  /\ stateEstimators' =
                    [x \in DOMAIN stateEstimators \cup {trainId} |->
                        IF x = trainId THEN fused.estimator ELSE stateEstimators[x]]
             /\ activeTrains' =
                    MapSet(activeTrains, trainId,
                           [trainId |-> fusedState.trainId,
                            position |-> fusedState.position,
                            speed |-> fusedState.speed,
                            heading |-> fusedState.heading,
                            confidence |-> fusedState.confidence,
                            dataQuality |-> calculateOverallQuality(recentData)])
             /\ lastBroadcast' = [trainId |-> trainId,
                                  position |-> fusedState.position,
                                  speed |-> fusedState.speed,
                                  heading |-> fusedState.heading,
                                  confidence |-> fusedState.confidence]
             /\ received' = [received EXCEPT ![trainId] = Append(@, data)]
    ELSE /\ lastBroadcast' = NoBroadcast
         /\ UNCHANGED <<stateEstimators, activeTrains, received>>

\* The model takes a reading for a train only while the train has had fewer
\* than MaxFusions and the hub fewer than MaxReadings, and trains get their
\* first reading in the order of their ids.
ReadingsSoFar == SumSeq([t \in HubTrainIds |-> Len(received[t])])

MayIngestFor(trainId) ==
    trainId # 0 =>
        /\ Len(received[trainId]) < MaxFusions
        /\ ReadingsSoFar < MaxReadings
        /\ \A t \in HubTrainIds : t < trainId => received[t] # <<>>

ingestGPSData(trainId, gpsData) ==
    /\ MayIngestFor(trainId)
    /\ LET normalizedData == NormalizeGPS(trainId, gpsData)
       IN  /\ processNormalizedData(normalizedData)
           /\ lastIngest' = [source |-> "GPS", raw |-> gpsData, reading |-> normalizedData]
    /\ lastCycle' = NoCycle
    /\ UNCHANGED <<currentSchedule, heap, calls, optimizerVars,
                   scenarioVars, detectionVars, trafficVars, trainDb, cycles>>

ingestTrackCircuitData(sectionId, circuitData) ==
    LET normalizedData == NormalizeTrackCircuit(sectionId, circuitData)
    IN  /\ processNormalizedData(normalizedData)
        /\ lastIngest' = [source |-> "TRACK_CIRCUIT", raw |-> circuitData,
                          reading |-> normalizedData]
        /\ lastCycle' = NoCycle
        /\ UNCHANGED <<currentSchedule, heap, calls, optimizerVars,
                       scenarioVars, detectionVars, trafficVars, trainDb, cycles>>

ingestStationReport(stationId, reportData) ==
    /\ MayIngestFor(reportData.trainId)
    /\ LET normalizedData == NormalizeStationReport(stationId, reportData)
       IN  /\ processNormalizedData(normalizedData)
           /\ lastIngest' = [source |-> "STATION_REPORT", raw |-> reportData,
                             reading |-> normalizedData]
    /\ lastCycle' = NoCycle
    /\ UNCHANGED <<currentSchedule, heap, calls, optimizerVars,
                   scenarioVars, detectionVars, trafficVars, trainDb, cycles>>

(***************************************************************************)
(* Conflict detection.                                                     *)
(***************************************************************************)
\* The pairs (i, j), i < j, in the order of the nested loops.
PairsOf(n) == Flatten([i \in 1..n |-> [d \in 1..(n - i) |-> <<i, i + d>>]])

\* The haversine distance of two positions on one meridian, in the steps of
\* the latitudes; NaN when a coordinate is NaN.
calculateDistance(pos1, pos2) ==
    IF \E x \in {pos1.lat, pos1.lon, pos2.lat, pos2.lon} : x.kind # "number"
    THEN JsNaN
    ELSE JsNumber(Abs(pos2.lat.val - pos1.lat.val))

\* The junction every pair of trains is given: 2 km from the initial estimate.
findConvergencePoint(trainId1, trainId2) ==
    [name |-> "Junction XY",
     position |-> [lat |-> JsNumber(2 * 5 * FixScale), lon |-> JsNumber(0)]]

\* Date.now() + (distance / train.speed) * 3600 * 1000, as the travel time
\* num / den in hours after the cycle's Date.now(); x / 0 is Infinity and
\* 0 / 0 is NaN.
calculateETA(train, destination) ==
    LET distance == calculateDistance(train.position, destination.position)
    IN  IF distance.kind # "number" \/ train.speed.kind # "number"
        THEN [kind |-> "NaN", num |-> 0, den |-> 1]
        ELSE IF train.speed.val = 0
             THEN IF distance.val = 0 THEN [kind |-> "NaN", num |-> 0, den |-> 1]
                  ELSE [kind |-> "Infinity", num |-> 0, den |-> 1]
             ELSE [kind |-> "number", num |-> distance.val, den |-> train.speed.val]

\* Math.abs(eta1 - eta2) < 5 * 60 * 1000: false when the difference is NaN
\* or Infinity; 5 minutes are 1/12 hour.
WithinSafetyMargin(eta1, eta2) ==
    /\ eta1.kind = "number"
    /\ eta2.kind = "number"
    /\ 12 * Abs(eta1.num * eta2.den - eta2.num * eta1.den) < eta1.den * eta2.den

Conflict(type, severity, trainIds, action) ==
    [type |-> type, severity |-> severity, trains |-> trainIds,
     recommendedAction |-> action]

detectConvergingPaths(trains) ==
    LET Converging(p) ==
            LET convergencePoint ==
                    findConvergencePoint(trains[p[1]].trainId, trains[p[2]].trainId)
            IN  WithinSafetyMargin(calculateETA(trains[p[1]], convergencePoint),
                                   calculateETA(trains[p[2]], convergencePoint))
        hits == SelectSeq(PairsOf(Len(trains)), Converging)
    IN  [k \in DOMAIN hits |->
            Conflict("CONVERGING_PATHS", "HIGH",
                     <<trains[hits[k][1]].trainId, trains[hits[k][2]].trainId>>,
                     "PRIORITY_BASED_SEQUENCING")]

\* Train.findById(trainId)?.currentStatus?.currentStation || null; 0 is null.
getCurrentStation(trainId) == trainDb[trainId]

\* The 10-minute bucket of the key is the same for every train of a cycle.
detectResourceOverallocation(trains) ==
    LET AtPlatform(k) ==
            /\ getCurrentStation(trains[k].trainId) # 0
            /\ trains[k].speed.kind = "number"
            /\ trains[k].speed.val < 5 * 5 * FixScale
        SameKey(k, m) ==
            getCurrentStation(trains[k].trainId) = getCurrentStation(trains[m].trainId)
        \* platformOccupancy.get(key) when the loop has ended: the conflicts
        \* hold the array itself, not a copy
        Occupancy(k) ==
            LET at == SelectSeq([m \in DOMAIN trains |-> m],
                                LAMBDA m : AtPlatform(m) /\ SameKey(k, m))
            IN  [x \in DOMAIN at |-> trains[at[x]].trainId]
        Overallocated(k) ==
            /\ AtPlatform(k)
            /\ Cardinality({m \in 1..k : AtPlatform(m) /\ SameKey(k, m)}) > 2
        hits == SelectSeq([m \in DOMAIN trains |-> m], Overallocated)
    IN  [x \in DOMAIN hits |->
            [type |-> "RESOURCE_OVERALLOCATION", severity |-> "MEDIUM",
             trains |-> Occupancy(hits[x]),
             location |-> getCurrentStation(trains[hits[x]].trainId),
             recommendedAction |-> "STAGGER_ARRIVALS"]]

\* A TrainState has no `delay`: `train.delay > 0` is false for every train.
detectDelayBubbleUp(trains) == <<>>

detectSafetyDistanceViolationsInclusive(trains) ==
    LET TooClose(p) ==
            LET distance == calculateDistance(trains[p[1]].position, trains[p[2]].position)
            IN  distance.kind = "number" /\ distance.val <= 2 * 5 * FixScale
        hits == SelectSeq(PairsOf(Len(trains)), TooClose)
    IN  [k \in DOMAIN hits |->
            Conflict("SAFETY_DISTANCE_VIOLATION", "CRITICAL",
                     <<trains[hits[k][1]].trainId, trains[hits[k][2]].trainId>>,
                     "EMERGENCY_HALT")]

detectSafetyDistanceViolations(trains) ==
    LET TooClose(p) ==
            LET distance == calculateDistance(trains[p[1]].position, trains[p[2]].position)
            IN  distance.kind = "number" /\ distance.val < 2 * 5 * FixScale
        hits == SelectSeq(PairsOf(Len(trains)), TooClose)
    IN  [k \in DOMAIN hits |->
            Conflict("SAFETY_DISTANCE_VIOLATION", "CRITICAL",
                     <<trains[hits[k][1]].trainId, trains[hits[k][2]].trainId>>,
                     "EMERGENCY_HALT")]

\* The list a check of cycle c is given.
ActiveTrainListLive(c) == activeTrains

ActiveTrainListOf(c) == cycles[c].activeTrainList

\* detectAndReportConflicts, called by `caller`, from its start to its first
\* wait for the database (getCurrentStation); with no active train it never
\* waits and returns at once.
detectAndReportConflicts(c, caller) ==
    /\ cycles[c].pc = "idle"
    /\ \A b \in CycleIds : b < c => cycles[b].pc # "idle"
    /\ LET activeTrainList == activeTrains
           conflicts == detectConvergingPaths(activeTrainList)
       IN  IF activeTrainList = <<>>
           THEN /\ lastCycle' = [finished |-> TRUE, trains |-> <<>>,
                                 conflicts |-> <<>>, seen |-> <<<<>>, <<>>, <<>>, <<>>>>]
                /\ UNCHANGED cycles
           ELSE /\ cycles' = [cycles EXCEPT ![c] =
                                 [pc |-> "awaitStations",
                                  caller |-> caller,
                                  activeTrainList |-> activeTrainList,
                                  conflicts |-> conflicts,
                                  atStart |-> activeTrains,
                                  seen |-> <<activeTrainList>>]]
                /\ lastCycle' = NoCycle
    /\ lastIngest' = NoIngest
    /\ lastBroadcast' = NoBroadcast
    /\ UNCHANGED <<currentSchedule, heap, calls, optimizerVars,
                   scenarioVars, detectionVars, trafficVars, stateEstimators,
                   activeTrains, trainDb, received>>

\* setInterval's callback: a cycle starts if conflict detection is active.
CycleStart(c) ==
    /\ conflictDetectionActive
    /\ detectAndReportConflicts(c, "timer")

\* generateConflictMatrix, for the admin control panel: a cycle starts.
generateConflictMatrix(c) == detectAndReportConflicts(c, "controlPanel")

\* toggleConflictDetection.
toggleConflictDetection(enabled) ==
    /\ conflictDetectionActive' = enabled
    /\ lastCycle' = NoCycle
    /\ lastIngest' = NoIngest
    /\ lastBroadcast' = NoBroadcast
    /\ UNCHANGED <<currentSchedule, heap, calls, optimizerVars, scenarioVars, trafficVars,
                   stateEstimators, activeTrains, trainDb, cycles, received>>

\* The database has answered detectResourceOverallocation's reads; the cycle
\* goes on to its next wait, for Train.findById in detectDelayBubbleUp.
CycleAfterStations(c) ==
    /\ cycles[c].pc = "awaitStations"
    /\ LET trains == ActiveTrainListOf(c)
       IN  cycles' = [cycles EXCEPT ![c].pc = "awaitTrains",
                                    ![c].conflicts = @ \o detectResourceOverallocation(trains),
                                    ![c].seen = Append(@, trains)]
    /\ lastCycle' = NoCycle
    /\ lastIngest' = NoIngest
    /\ lastBroadcast' = NoBroadcast
    /\ UNCHANGED <<currentSchedule, heap, calls, optimizerVars,
                   scenarioVars, detectionVars, trafficVars, stateEstimators,
                   activeTrains, trainDb, received>>

\* The database has answered detectDelayBubbleUp's reads; the cycle runs the
\* safety-distance check, emits the conflicts and returns.
CycleAfterTrains(c) ==
    /\ cycles[c].pc = "awaitTrains"
    /\ LET trains == ActiveTrainListOf(c)
       IN  lastCycle' = [finished |-> TRUE,
                         trains |-> cycles[c].atStart,
                         conflicts |-> cycles[c].conflicts
                                          \o detectDelayBubbleUp(trains)
                                          \o detectSafetyDistanceViolations(trains),
                         seen |-> cycles[c].seen \o <<trains, trains>>]
    /\ cycles' = [cycles EXCEPT ![c] = IdleCycle]
    /\ lastIngest' = NoIngest
    /\ lastBroadcast' = NoBroadcast
    /\ UNCHANGED <<currentSchedule, heap, calls, optimizerVars,
                   scenarioVars, detectionVars, trafficVars, stateEstimators,
                   activeTrains, trainDb, received>>

(***************************************************************************)
(* The hub under telemetry and the detection timer.                        *)
(***************************************************************************)
\* Where the Train collection has the trains: all at station 1, or train 1
\* at no station and the others at station 1.
StationAssignments ==
    { [t \in HubTrainIds |-> 1],
      [t \in HubTrainIds |-> IF t = 1 THEN 0 ELSE 1] }

\* Well-formed positional readings: at the initial estimate or 2.6 km from
\* it, standing or at 31.2 km/h, received as they are taken.
PairGpsRaws ==
    { [lat |-> Given(lat), lon |-> Given(0), speed |-> Given(speed),
       accuracy |-> Given(3), timestamp |-> TimeMissing] :
         lat \in {0, 13}, speed \in {0, 156} }

\* Those of them taken at the initial estimate.
HubGpsRaws == {gpsData \in PairGpsRaws : gpsData.lat.val = 0}

\* Well-formed arrival reports for the trains of T.
ArrivalReports(T) ==
    { [timestamp |-> TimeMissing, trainId |-> t, event |-> "ARRIVAL",
       delay |-> Given(8), stationMaster |-> TRUE] : t \in T }

HubInit ==
    /\ currentSchedule = <<>>
    /\ heap = <<>>
    /\ calls = [c \in CallIds |-> IdleCall]
    /\ OptimizerIdle
    /\ HubConstructed
    /\ NoRequests
    /\ DetectionOn
    /\ TrafficOptimizerIdle
    /\ trainDb \in StationAssignments

\* Telemetry for every train and the detection timer, whose ticks start a
\* cycle whether or not another is still running.
HubNext ==
    \/ \E t \in HubTrainIds, gpsData \in HubGpsRaws : ingestGPSData(t, gpsData)
    \/ \E c \in CycleIds : CycleStart(c)
    \/ \E c \in CycleIds : CycleAfterStations(c)
    \/ \E c \in CycleIds : CycleAfterTrains(c)

SpecHub == HubInit /\ [][HubNext]_vars

\* Positional readings and arrival reports for the first NumPairTrains
\* trains, and detection cycles that do not overrun their period.
NumPairTrains == 2
PairReadings == 3
PairTrainIds == 1..NumPairTrains

PairInit ==
    /\ currentSchedule = <<>>
    /\ heap = <<>>
    /\ calls = [c \in CallIds |-> IdleCall]
    /\ OptimizerIdle
    /\ HubConstructed
    /\ NoRequests
    /\ DetectionOn
    /\ TrafficOptimizerIdle
    /\ trainDb = [t \in HubTrainIds |-> 1]

\* The ingest methods while the hub has had fewer than PairReadings readings.
PairIngestGPS(trainId, gpsData) ==
    /\ ReadingsSoFar < PairReadings
    /\ ingestGPSData(trainId, gpsData)

PairIngestStationReport(stationId, reportData) ==
    /\ ReadingsSoFar < PairReadings
    /\ ingestStationReport(stationId, reportData)

PairNext ==
    \/ \E t \in PairTrainIds, gpsData \in PairGpsRaws : PairIngestGPS(t, gpsData)
    \/ \E reportData \in ArrivalReports(PairTrainIds) : PairIngestStationReport(1, reportData)
    \/ CycleStart(1)
    \/ CycleAfterStations(1)
    \/ CycleAfterTrains(1)

SpecPair == PairInit /\ [][PairNext]_vars

\* The same with conflict detection turned off and on, and with admin
\* control-panel requests; a started cycle goes on whatever is toggled.
ToggleNext ==
    \/ \E t \in PairTrainIds, gpsData \in PairGpsRaws : PairIngestGPS(t, gpsData)
    \/ \E enabled \in BOOLEAN : toggleConflictDetection(enabled)
    \/ CycleStart(1)
    \/ generateConflictMatrix(1)
    \/ CycleAfterStations(1)
    \/ CycleAfterTrains(1)

SpecToggle == PairInit /\ [][ToggleNext]_vars

(***************************************************************************)
(* The hub under raw readings of every shape, for one train and for no     *)
(* train: fusion is per train, and a train's readings touch no other       *)
(* train's estimator.                                                      *)
(***************************************************************************)
GpsRaw(lat, speed, accuracy, timestamp) ==
    [lat |-> lat, lon |-> IF lat.present THEN Given(0) ELSE Undefined,
     speed |-> speed, accuracy |-> accuracy, timestamp |-> timestamp]

\* Positional readings: with and without position, speed and timestamp, taken
\* now or 20 s ago; and one each with an implausible speed, a poor and a
\* missing accuracy, a timestamp 60 s old, an unparsable one and one 10
\* minutes old.
IngestGpsRaws ==
    { GpsRaw(lat, speed, Given(3), timestamp) :
         lat \in {Undefined, Given(0), Given(13)},
         speed \in {Undefined, Given(156)},
         timestamp \in {TimeMissing, TimeAgo(20)} }
    \cup { GpsRaw(Given(13), Given(1014), Given(3), TimeAgo(0)),
           GpsRaw(Given(13), Given(156), Given(60), TimeAgo(0)),
           GpsRaw(Given(13), Given(156), Undefined, TimeAgo(0)),
           GpsRaw(Given(13), Given(156), Given(3), TimeAgo(60)),
           GpsRaw(Given(13), Given(156), Given(3), TimeInvalid),
           GpsRaw(Given(13), Given(156), Given(3), TimeAgo(600)) }

\* Positional readings without a train identity: one complete, one empty.
AnonymousGpsRaws ==
    { GpsRaw(Given(13), Given(156), Given(3), TimeAgo(0)),
      GpsRaw(Undefined, Undefined, Undefined, TimeMissing) }

\* Occupancy readings.  Besides `status`, which ingestTrackCircuitData reads,
\* a reading may carry the `occupied` flag of the inbound shape; the signal
\* state "" and the train 0 are missing ones.
CircuitRaw(status, occupied, t, signalState) ==
    [timestamp |-> TimeAgo(0), status |-> status, occupied |-> occupied,
     trainId |-> t, signalState |-> signalState]

CircuitRaws ==
    { CircuitRaw(status, occupied, 1, signalState) :
         status \in {"OCCUPIED", "CLEAR", "UNKNOWN"},
         occupied \in {Undefined, Given(1)},
         signalState \in {"GREEN", "RED"} }
    \cup { CircuitRaw("OCCUPIED", Undefined, 1, ""),
           CircuitRaw("", Undefined, 0, "") }

\* Station reports; the event "" and the train 0 are missing ones.
StationRaw(t, event, delay, stationMaster) ==
    [timestamp |-> TimeAgo(0), trainId |-> t, event |-> event,
     delay |-> delay, stationMaster |-> stationMaster]

StationRaws ==
    { StationRaw(1, event, Given(8), stationMaster) :
         event \in {"", "ARRIVAL", "HALT_START"}, stationMaster \in BOOLEAN }
    \cup { StationRaw(1, "ARRIVAL", Given(500), TRUE),
           StationRaw(1, "ARRIVAL", Undefined, TRUE),
           StationRaw(0, "ARRIVAL", Given(8), TRUE),
           StationRaw(0, "", Undefined, FALSE) }

IngestNext ==
    \/ \E gpsData \in IngestGpsRaws : ingestGPSData(1, gpsData)
    \/ \E gpsData \in AnonymousGpsRaws : ingestGPSData(0, gpsData)
    \/ \E circuitData \in CircuitRaws : ingestTrackCircuitData(1, circuitData)
    \/ \E reportData \in StationRaws : ingestStationReport(1, reportData)

SpecIngest == PairInit /\ [][IngestNext]_vars

(***************************************************************************)
(* Properties of the Conflict Detector.                                    *)
(***************************************************************************)
\* The conflicts of the given type that the cycle just ended emitted for the
\* trains at places i and j of its list.
ConflictsFor(type, i, j) ==
    {k \in DOMAIN lastCycle.conflicts :
        /\ lastCycle.conflicts[k].type = type
        /\ lastCycle.conflicts[k].trains =
              <<lastCycle.trains[i].trainId, lastCycle.trains[j].trainId>>}

TrainPairs(trains) == {p \in (DOMAIN trains) \X (DOMAIN trains) : p[1] < p[2]}

\* Both positions are known and the steps between them are fewer than (just)
\* those of 2 km.
HasPosition(train) == train.position.lat.kind = "number" /\ train.position.lon.kind = "number"

StepsApart(train1, train2) == Abs(train1.position.lat.val - train2.position.lat.val)

CloserThan2Km(train1, train2) ==
    /\ HasPosition(train1)
    /\ HasPosition(train2)
    /\ StepsApart(train1, train2) < 10 * FixScale

Exactly2KmApart(train1, train2) ==
    /\ HasPosition(train1)
    /\ HasPosition(train2)
    /\ StepsApart(train1, train2) = 10 * FixScale

\* C11: a detection cycle emits, for every pair of the active trains, one
\* SAFETY_DISTANCE_VIOLATION conflict (CRITICAL, EMERGENCY_HALT) if their
\* fused positions are less than 2 km apart and none otherwise, so none for
\* a pair exactly 2 km apart.
C11_SafetyDistanceStrictlyBelow ==
    lastCycle.finished =>
        \A p \in TrainPairs(lastCycle.trains) :
            LET found == ConflictsFor("SAFETY_DISTANCE_VIOLATION", p[1], p[2])
            IN  /\ Cardinality(found) =
                      IF CloserThan2Km(lastCycle.trains[p[1]], lastCycle.trains[p[2]])
                      THEN 1 ELSE 0
                /\ \A k \in found :
                      /\ lastCycle.conflicts[k].severity = "CRITICAL"
                      /\ lastCycle.conflicts[k].recommendedAction = "EMERGENCY_HALT"

\* A cycle has ended whose list had two trains exactly 2 km apart, and it
\* emitted no safety-distance conflict for them.
C11_Witness ==
    /\ lastCycle.finished
    /\ \E p \in TrainPairs(lastCycle.trains) :
          /\ Exactly2KmApart(lastCycle.trains[p[1]], lastCycle.trains[p[2]])
          /\ ConflictsFor("SAFETY_DISTANCE_VIOLATION", p[1], p[2]) = {}

\* The trains of the list that stand (speed below 5 km/h) at station s.
CoLocatedAt(trains, s) ==
    {trains[k].trainId : k \in {m \in DOMAIN trains :
        /\ trainDb[trains[m].trainId] = s
        /\ trains[m].speed.kind = "number"
        /\ trains[m].speed.val < 5 * 5 * FixScale}}

OverallocationsAt(s) ==
    {k \in DOMAIN lastCycle.conflicts :
        /\ lastCycle.conflicts[k].type = "RESOURCE_OVERALLOCATION"
        /\ lastCycle.conflicts[k].location = s}

StationIds == {trainDb[t] : t \in HubTrainIds} \ {0}

\* C12: a detection cycle emits, for every station at which more than 2 of
\* the active trains stand, exactly one RESOURCE_OVERALLOCATION conflict of
\* severity MEDIUM, and it lists all the trains standing there.
C12_OneOverallocationPerStation ==
    lastCycle.finished =>
        \A s \in StationIds :
            Cardinality(CoLocatedAt(lastCycle.trains, s)) > 2 =>
                /\ Cardinality(OverallocationsAt(s)) = 1
                /\ \A k \in OverallocationsAt(s) :
                      /\ lastCycle.conflicts[k].severity = "MEDIUM"
                      /\ {lastCycle.conflicts[k].trains[x] :
                             x \in DOMAIN lastCycle.conflicts[k].trains}
                            = CoLocatedAt(lastCycle.trains, s)

\* The steps from a train's fused position to the junction of its route.
StepsToJunction(train) == Abs(10 * FixScale - train.position.lat.val)

\* A train arrives at the junction if it stands on it or moves.
ArrivesAtJunction(train) ==
    /\ HasPosition(train)
    /\ train.speed.kind = "number"
    /\ (StepsToJunction(train) = 0 \/ train.speed.val > 0)

\* Its time to the junction in hours, as <<numerator, denominator>>: none
\* for a train that stands on it.
TimeToJunction(train) ==
    IF StepsToJunction(train) = 0 THEN <<0, 1>>
    ELSE <<StepsToJunction(train), train.speed.val>>

\* Both trains arrive, less than 5 minutes (1/12 hour) apart.
ArriveWithin5Min(train1, train2) ==
    /\ ArrivesAtJunction(train1)
    /\ ArrivesAtJunction(train2)
    /\ LET t1 == TimeToJunction(train1)
           t2 == TimeToJunction(train2)
       IN  12 * Abs(t1[1] * t2[2] - t2[1] * t1[2]) < t1[2] * t2[2]

\* C13: a detection cycle emits, for every pair of the active trains, one
\* CONVERGING_PATHS conflict of severity HIGH if their estimated times of
\* arrival at the junction are less than 5 minutes apart and none otherwise,
\* also when one or both of the trains stand (speed 0).
C13_ConvergingWithinFiveMinutes ==
    lastCycle.finished =>
        \A p \in TrainPairs(lastCycle.trains) :
            LET found == ConflictsFor("CONVERGING_PATHS", p[1], p[2])
            IN  /\ Cardinality(found) =
                      IF ArriveWithin5Min(lastCycle.trains[p[1]], lastCycle.trains[p[2]])
                      THEN 1 ELSE 0
                /\ \A k \in found : lastCycle.conflicts[k].severity = "HIGH"

(***************************************************************************)
(* Properties of the Telemetry Ingestor and the State Fuser.               *)
(***************************************************************************)
\* The readings of a train, all received within one second, ordered by the
\* time they were taken.
InTimestampOrder(readings) ==
    LET n == Len(readings)
        order == CHOOSE f \in [1..n -> 1..n] :
                    \A a, b \in 1..n :
                        a < b => readings[f[a]].timestamp.val < readings[f[b]].timestamp.val
    IN  [k \in 1..n |-> readings[order[k]]]

\* The readings were taken at different times within the last 5 minutes.
DistinctRecent(readings) ==
    /\ \A k \in DOMAIN readings : IsRecent(readings[k])
    /\ \A a, b \in DOMAIN readings :
          a # b => readings[a].timestamp.val # readings[b].timestamp.val

\* C14: the fused position and speed of a train are those of fusing its
\* readings in the order of their timestamps, whatever the order in which
\* they arrived.
C14_FusionInTimestampOrder ==
    \A t \in DOMAIN stateEstimators :
        (Len(received[t]) > 1 /\ DistinctRecent(received[t])) =>
            LET fresh == initializeKalmanFilter(t)
                expected == FuseLoop(fresh.state, InTimestampOrder(received[t]), fresh)
            IN  /\ stateEstimators[t].state.position = expected.position
                /\ stateEstimators[t].state.velocity.speed = expected.velocity.speed

\* C15: the confidence of every stored TrainState and of every broadcast
\* update lies between 0 and 1 (1000 thousandths), whatever readings were
\* ingested.
C15_ConfidenceInUnitInterval ==
    /\ \A k \in DOMAIN activeTrains : activeTrains[k].confidence \in 0..1000
    /\ lastBroadcast.trainId # 0 => lastBroadcast.confidence \in 0..1000

\* A train's state has been fused from MaxFusions readings, the last one a
\* reading of degraded quality that is not a positional one, and broadcast.
C15_Witness ==
    /\ lastBroadcast.trainId # 0
    /\ lastIngest.source \in {"TRACK_CIRCUIT", "STATION_REPORT"}
    /\ lastIngest.reading.quality < 1000
    /\ Len(received[lastBroadcast.trainId]) = MaxFusions
    /\ \E k \in DOMAIN activeTrains :
          /\ activeTrains[k].trainId = lastBroadcast.trainId
          /\ activeTrains[k].confidence = lastBroadcast.confidence

(***************************************************************************)
(* POST /scenario-analysis of the traffic-control routes.  The analysis is *)
(* computation only: analyzeScenarios and the functions it awaits wait for *)
(* no input, output or timer, so from its call to its settling no timer    *)
(* callback and no other handler runs.  Time is in units of 10 s; the      *)
(* clock advances while the analysis computes and while the server idles.  *)
(***************************************************************************)
\* setTimeout(..., 30000)
TimeBox == 3

\* The longest baseline optimisation and scenario run the model follows, and
\* the time at which it stops.
MaxBaseline == 1
MaxWork == 4
MaxClock == 8

\* The messages of the errors the handler catches, and String.includes on
\* them.
TimeoutMessage == "Scenario analysis timeout"
OptimizerMessage == "Cannot read properties of undefined"

Includes(message, word) ==
    CASE message = TimeoutMessage -> word = "timeout"
      [] OTHER -> FALSE

\* The errorCode of the catch block.
ErrorCode(message) ==
    IF Includes(message, "timeout") THEN "TIMEOUT"
    ELSE IF Includes(message, "not found") THEN "NOT_FOUND"
    ELSE IF Includes(message, "validation") THEN "VALIDATION_ERROR"
    ELSE "INTERNAL_ERROR"

Computing(r) == requests[r].pc \in {"baseline", "scenarios"}

\* No handler is running: timer callbacks and new requests can be served.
EventLoopFree == \A r \in RequestIds : ~Computing(r)

\* The handler from its start: the validation of the body, and with a valid
\* body the call of analyzeScenarios, which runs the baseline optimisation
\* before it returns its promise.
PostScenarioAnalysis(r, bodyValid, baselineWork, scenarioWork, throws) ==
    /\ requests[r].pc = "none"
    /\ \A q \in RequestIds : q < r => requests[q].pc # "none"
    /\ EventLoopFree
    /\ now + baselineWork + scenarioWork <= MaxClock
    /\ requests' = [requests EXCEPT ![r] =
          IF ~bodyValid
          THEN [NoRequest EXCEPT !.pc = "responded", !.receivedAt = now,
                                 !.response = [status |-> 400, errorCode |-> "", at |-> now]]
          ELSE [NoRequest EXCEPT !.pc = "baseline", !.receivedAt = now,
                                 !.left = baselineWork,
                                 !.throws = throws,
                                 !.scenarioWork = IF throws THEN 0 ELSE scenarioWork,
                                 !.analysisTime = baselineWork
                                                  + IF throws THEN 0 ELSE scenarioWork]]
    /\ UNCHANGED <<now, currentSchedule, heap, calls, optimizerVars, hubVars,
                   detectionVars, trafficVars>>

\* 10 s of the analysis.
AnalysisWork(r) ==
    /\ Computing(r)
    /\ requests[r].left > 0
    /\ requests' = [requests EXCEPT ![r].left = @ - 1]
    /\ now' = now + 1
    /\ UNCHANGED <<currentSchedule, heap, calls, optimizerVars, hubVars,
                   detectionVars, trafficVars>>

\* analyzeScenarios has returned its promise: the handler arms the timer and
\* awaits the race.  If the baseline optimisation threw, the race rejects
\* with its error and the catch block answers; otherwise the scenarios run.
BaselineReturns(r) ==
    /\ requests[r].pc = "baseline"
    /\ requests[r].left = 0
    /\ requests' = [requests EXCEPT ![r] =
          IF requests[r].throws
          THEN [@ EXCEPT !.pc = "responded", !.timer = "pending",
                         !.timerDue = now + TimeBox,
                         !.response = [status |-> 500,
                                       errorCode |-> ErrorCode(OptimizerMessage),
                                       at |-> now]]
          ELSE [@ EXCEPT !.pc = "scenarios", !.timer = "pending",
                         !.timerDue = now + TimeBox,
                         !.left = requests[r].scenarioWork]]
    /\ UNCHANGED <<now, currentSchedule, heap, calls, optimizerVars, hubVars,
                   detectionVars, trafficVars>>

\* The analysis promise resolves and wins the race; storeScenarioAnalysis
\* only logs, and the handler answers with the result.
AnalysisResolves(r) ==
    /\ requests[r].pc = "scenarios"
    /\ requests[r].left = 0
    /\ requests' = [requests EXCEPT ![r].pc = "responded",
                                    ![r].response = [status |-> 200, errorCode |-> "",
                                                     at |-> now]]
    /\ UNCHANGED <<now, currentSchedule, heap, calls, optimizerVars, hubVars,
                   detectionVars, trafficVars>>

\* The timer's callback rejects timeoutPromise: the race rejects with it if
\* it has not settled, and the catch block answers.
TimeoutFires(r) ==
    /\ requests[r].timer = "pending"
    /\ now >= requests[r].timerDue
    /\ EventLoopFree
    /\ requests' = [requests EXCEPT ![r] =
          IF requests[r].pc = "scenarios"
          THEN [@ EXCEPT !.pc = "responded", !.timer = "fired",
                         !.response = [status |-> 500,
                                       errorCode |-> ErrorCode(TimeoutMessage),
                                       at |-> now]]
          ELSE [@ EXCEPT !.timer = "fired"]]
    /\ UNCHANGED <<now, currentSchedule, heap, calls, optimizerVars, hubVars,
                   detectionVars, trafficVars>>

\* 10 s pass while the server idles.
Tick ==
    /\ EventLoopFree
    /\ now < MaxClock
    /\ now' = now + 1
    /\ UNCHANGED <<requests, currentSchedule, heap, calls, optimizerVars, hubVars,
                   detectionVars, trafficVars>>

ScenarioInit ==
    /\ currentSchedule = <<>>
    /\ heap = <<>>
    /\ calls = [c \in CallIds |-> IdleCall]
    /\ OptimizerIdle
    /\ HubIdle
    /\ NoRequests
    /\ DetectionOn
    /\ TrafficOptimizerIdle

ScenarioNext ==
    \/ \E r \in RequestIds, bodyValid, throws \in BOOLEAN,
          baselineWork \in 0..MaxBaseline, scenarioWork \in 0..MaxWork :
          PostScenarioAnalysis(r, bodyValid, baselineWork, scenarioWork, throws)
    \/ \E r \in RequestIds : AnalysisWork(r)
    \/ \E r \in RequestIds : BaselineReturns(r)
    \/ \E r \in RequestIds : AnalysisResolves(r)
    \/ \E r \in RequestIds : TimeoutFires(r)
    \/ Tick

SpecScenario == ScenarioInit /\ [][ScenarioNext]_vars

\* The time a request has been waiting for its answer.
Waited(r) ==
    IF requests[r].pc = "responded" THEN requests[r].response.at - requests[r].receivedAt
    ELSE now - requests[r].receivedAt

MalformedIngest ==
    CASE lastIngest.source = "GPS" ->
            \/ ~lastIngest.raw.lat.present
            \/ ~lastIngest.raw.lon.present
            \/ ~lastIngest.raw.speed.present
            \/ ~(lastIngest.raw.timestamp.present /\ lastIngest.raw.timestamp.valid)
            \/ lastIngest.reading.trainId = 0
      [] lastIngest.source = "TRACK_CIRCUIT" ->
            lastIngest.raw.status = "" \/ lastIngest.raw.trainId = 0
      [] lastIngest.source = "STATION_REPORT" ->
            lastIngest.raw.event = "" \/ lastIngest.raw.trainId = 0
      [] OTHER -> FALSE

\* The quality of a well-formed reading of each kind.
WellFormedQuality(source) ==
    CASE source = "GPS" ->
            calculateGPSQuality(GpsRaw(Given(13), Given(156), Given(3), TimeAgo(0)))
      [] source = "TRACK_CIRCUIT" ->
            calculateCircuitQuality(CircuitRaw("CLEAR", Undefined, 1, "GREEN"))
      [] source = "STATION_REPORT" ->
            calculateStationReportQuality(StationRaw(1, "ARRIVAL", Given(8), TRUE))

\* C17: ingesting a malformed raw reading yields a Reading, and its quality
\* is lower than that of a well-formed reading of its kind.
C17_MalformedLowQuality ==
    MalformedIngest =>
        lastIngest.reading.quality < WellFormedQuality(lastIngest.source)

\* What the raw occupancy reading of the step just taken says: its state is
\* unknown; or it reports the section occupied, by its status or by its
\* `occupied` flag, while its signal shows proceed.
CircuitUnknown == lastIngest.raw.status = "UNKNOWN"

CircuitInconsistent ==
    /\ lastIngest.raw.status = "OCCUPIED" \/ lastIngest.raw.occupied.present
    /\ lastIngest.raw.signalState = "GREEN"

\* C18: ingestTrackCircuitData gives an occupancy reading of unknown state
\* the quality 0.3, one that reports the section occupied under a GREEN
\* signal the quality 0.5, and a consistent reading of known state 1.0.
C18_CircuitQuality ==
    lastIngest.source = "TRACK_CIRCUIT" =>
        /\ (CircuitUnknown /\ ~CircuitInconsistent) => lastIngest.reading.quality = 300
        /\ (CircuitInconsistent /\ ~CircuitUnknown) => lastIngest.reading.quality = 500
        /\ (lastIngest.raw.status \in {"OCCUPIED", "CLEAR"} /\ ~CircuitInconsistent)
              => lastIngest.reading.quality = 1000

(***************************************************************************)
(* Properties of the detection cycles.                                     *)
(***************************************************************************)
CyclesInProgress == {c \in CycleIds : cycles[c].pc # "idle"}

\* C19: at most one detection cycle is in progress at any time; a tick of
\* the timer during a cycle starts no other.
C19_AtMostOneCycle == Cardinality(CyclesInProgress) <= 1

\* C20: the four checks of a detection cycle are all given the TrainStates
\* the hub held when the cycle started, whatever readings are ingested while
\* the cycle waits.
C20_ChecksSeeStartSnapshot ==
    /\ \A c \in CycleIds :
          cycles[c].pc # "idle" =>
              \A k \in DOMAIN cycles[c].seen : cycles[c].seen[k] = cycles[c].atStart
    /\ lastCycle.finished =>
          /\ Len(lastCycle.seen) = 4
          /\ \A k \in DOMAIN lastCycle.seen : lastCycle.seen[k] = lastCycle.trains

\* A cycle over some trains has ended, and a reading ingested while it
\* waited has made the hub's TrainStates differ from those it started with.
C20_Witness ==
    /\ lastCycle.finished
    /\ lastCycle.trains # <<>>
    /\ activeTrains # lastCycle.trains

(***************************************************************************)
(* The AI Traffic Optimizer's what-if analysis: analyzeScenarios on the    *)
(* one section, with its applyScenarioModifications and                    *)
(* restoreOriginalConditions (services/AITrafficOptimizer.js).             *)
(***************************************************************************)
NumAiTrains == 2
MaxScenarios == 2

AiTrainIds == 1..NumAiTrains

\* The section the analysis is about, and its capacity as the route
\* POST /scenario-analysis registers it.
TheSection == 1
RegisteredCapacity == 100

\* The reduced speed of a weather scenario and the speed the restoration puts
\* back; the default speed and capacity; the floor of a blocked capacity; the
\* priority of an emergency; the duration of a scenario, in minutes.
WeatherSpeed == 60
RestoredSpeed == 120
DefaultSpeed == 120
DefaultCapacity == 100
MinCapacity == 20
EmergencyPriority == 10
ScenarioDuration == 30

\* x || d for a number x that may be undefined (0 is falsy too).
OrDefault(x, d) == IF x.present /\ x.val # 0 THEN x.val ELSE d

\* updateTrainStatus: the train data as stored, with the fields the scenario
\* code reads; a flag that is not set is undefined.
TrainData(t, currentSection, maxSpeed) ==
    [id |-> t, priority |-> Train(t).priority, maxSpeed |-> maxSpeed,
     currentSection |-> currentSection,
     simulatedDelay |-> Undefined, scenarioAffected |-> FALSE,
     weatherAffected |-> FALSE, emergencyMode |-> FALSE,
     originalPriority |-> Undefined]

ScenarioTypes ==
    {"Train Delay Scenario", "Track Blockage", "Weather Impact", "Emergency Priority"}

Scenarios ==
    [type : ScenarioTypes, affectedEntity : AiTrainIds, duration : {ScenarioDuration}]

\* The first train of the Map, in insertion order, whose id is the affected
\* entity; 0 when there is none.
FirstMatch(trains, affectedEntity) ==
    IF affectedEntity \in DOMAIN trains THEN affectedEntity ELSE 0

applyDelayScenario(trains, scenario) ==
    LET t == FirstMatch(trains, scenario.affectedEntity)
    IN  IF t = 0 THEN trains
        ELSE [trains EXCEPT
                 ![t].simulatedDelay = Given(OrDefault(@, 0) + scenario.duration),
                 ![t].scenarioAffected = TRUE]

\* Math.max(20, currentCapacity * 0.5), in whole units.
applyBlockageScenario(capacities, sectionId) ==
    LET currentCapacity == IF sectionId \in DOMAIN capacities
                           THEN OrDefault(capacities[sectionId], DefaultCapacity)
                           ELSE DefaultCapacity
    IN  [s \in DOMAIN capacities \cup {sectionId} |->
            IF s = sectionId THEN Given(Max(MinCapacity, currentCapacity \div 2))
            ELSE capacities[s]]

applyWeatherScenario(trains, sectionId) ==
    [t \in DOMAIN trains |->
        IF trains[t].currentSection = sectionId
        THEN [trains[t] EXCEPT
                 !.maxSpeed = Given(Min(OrDefault(@, DefaultSpeed), WeatherSpeed)),
                 !.weatherAffected = TRUE]
        ELSE trains[t]]

applyEmergencyScenario(trains, scenario) ==
    LET t == FirstMatch(trains, scenario.affectedEntity)
    IN  IF t = 0 THEN trains
        ELSE [trains EXCEPT ![t].originalPriority = Given(trains[t].priority),
                            ![t].priority = EmergencyPriority,
                            ![t].emergencyMode = TRUE]

\* applyScenarioModifications: the saved original state, and the trains and
\* capacities after the modification.
applyScenarioModifications(trains, capacities, sectionId, scenario) ==
    [originalState |->
        [sectionCapacities |-> IF sectionId \in DOMAIN capacities
                               THEN capacities[sectionId] ELSE Undefined],
     aiTrains |->
        CASE scenario.type = "Train Delay Scenario" -> applyDelayScenario(trains, scenario)
          [] scenario.type = "Weather Impact" -> applyWeatherScenario(trains, sectionId)
          [] scenario.type = "Emergency Priority" -> applyEmergencyScenario(trains, scenario)
          [] OTHER -> trains,
     sectionCapacities |->
        IF scenario.type = "Track Blockage"
        THEN applyBlockageScenario(capacities, sectionId)
        ELSE capacities]

\* The loop body of restoreOriginalConditions for one train, in the order of
\* the code: the flags are deleted, the priority is put back if one was
\* saved, and the speed is reset if the train is (still) weatherAffected.
RestoreTrain(trainData) ==
    LET deleted == [trainData EXCEPT !.simulatedDelay = Undefined,
                                     !.scenarioAffected = FALSE,
                                     !.weatherAffected = FALSE,
                                     !.emergencyMode = FALSE]
        prioritised == IF deleted.originalPriority.present
                       THEN [deleted EXCEPT !.priority = deleted.originalPriority.val,
                                            !.originalPriority = Undefined]
                       ELSE deleted
    IN  IF prioritised.weatherAffected
        THEN [prioritised EXCEPT !.maxSpeed = Given(RestoredSpeed)]
        ELSE prioritised

\* restoreOriginalConditions, the original state having been stored by
\* applyScenarioModifications under the same key.
restoreOriginalConditions(trains, capacities, sectionId, originalState) ==
    [aiTrains |-> [t \in DOMAIN trains |-> RestoreTrain(trains[t])],
     sectionCapacities |->
        IF originalState.sectionCapacities.present
           /\ originalState.sectionCapacities.val # 0
        THEN [s \in DOMAIN capacities \cup {sectionId} |->
                 IF s = sectionId THEN originalState.sectionCapacities
                 ELSE capacities[s]]
        ELSE capacities]

\* updateTrainStatus: sets the train's data, replacing what was stored.
UpdateTrainStatus(t, currentSection, maxSpeed) ==
    /\ analysis.pc = "idle"
    /\ aiTrains' = [x \in DOMAIN aiTrains \cup {t} |->
                       IF x = t THEN TrainData(t, currentSection, maxSpeed)
                       ELSE aiTrains[x]]
    /\ UNCHANGED <<currentSchedule, heap, calls, optimizerVars, hubVars, scenarioVars,
                   detectionVars, sectionCapacities, analysis>>

\* analyzeScenarios up to its loop: the baseline optimization of the
\* registered section.  before records the state at the call.
AnalyzeStart(scenarios) ==
    /\ analysis.pc = "idle"
    /\ TheSection \in DOMAIN sectionCapacities
    /\ analysis' = [pc |-> "scenarios", scenarios |-> scenarios,
                    before |-> [aiTrains |-> aiTrains,
                                sectionCapacities |-> sectionCapacities]]
    /\ UNCHANGED <<currentSchedule, heap, calls, optimizerVars, hubVars, scenarioVars,
                   detectionVars, aiTrains, sectionCapacities>>

\* One iteration of the loop: the modifications, the optimization, and, when
\* that has not thrown, the restoration; when it has, the catch block.
AnalyzeScenario(optimizationThrows) ==
    /\ analysis.pc = "scenarios"
    /\ analysis.scenarios # <<>>
    /\ LET scenario == Head(analysis.scenarios)
           applied == applyScenarioModifications(aiTrains, sectionCapacities,
                                                 TheSection, scenario)
           restored == restoreOriginalConditions(applied.aiTrains,
                                                 applied.sectionCapacities,
                                                 TheSection, applied.originalState)
           after == IF optimizationThrows THEN applied ELSE restored
       IN  /\ aiTrains' = after.aiTrains
           /\ sectionCapacities' = after.sectionCapacities
    /\ analysis' = [analysis EXCEPT !.scenarios = Tail(@)]
    /\ UNCHANGED <<currentSchedule, heap, calls, optimizerVars, hubVars, scenarioVars,
                   detectionVars>>

\* analyzeScenarios returns its results.
AnalyzeReturn ==
    /\ analysis.pc = "scenarios"
    /\ analysis.scenarios = <<>>
    /\ analysis' = [analysis EXCEPT !.pc = "done"]
    /\ UNCHANGED <<currentSchedule, heap, calls, optimizerVars, hubVars, scenarioVars,
                   detectionVars, aiTrains, sectionCapacities>>

\* The optimizer with the section registered, as the route leaves it before
\* it calls analyzeScenarios.
WhatIfInit ==
    /\ currentSchedule = <<>>
    /\ heap = <<>>
    /\ calls = [c \in CallIds |-> IdleCall]
    /\ OptimizerIdle
    /\ HubIdle
    /\ NoRequests
    /\ DetectionOn
    /\ aiTrains = <<>>
    /\ sectionCapacities = [s \in {TheSection} |-> Given(RegisteredCapacity)]
    /\ analysis = NoAnalysis

WhatIfNext ==
    \/ \E t \in AiTrainIds, currentSection \in {0, TheSection} :
       \E maxSpeed \in {Undefined, Given(Train(t).maxSpeed)} :
          /\ \A x \in 1..(t - 1) : x \in DOMAIN aiTrains
          /\ t \notin DOMAIN aiTrains
          /\ UpdateTrainStatus(t, currentSection, maxSpeed)
    \/ \E n \in 1..MaxScenarios : \E scenarios \in [1..n -> Scenarios] :
          AnalyzeStart(scenarios)
    \/ \E optimizationThrows \in BOOLEAN : AnalyzeScenario(optimizationThrows)
    \/ AnalyzeReturn

SpecWhatIf == WhatIfInit /\ [][WhatIfNext]_vars

(***************************************************************************)
(* Properties of the Schedule Optimizer.                                   *)
(***************************************************************************)
\* C21: runGeneticAlgorithm returns, after no more generations than its cap,
\* for every non-empty population, those of individuals without trains
\* included; and the offspring loop never makes the new population larger
\* than the old one.
C21_GeneticAlgorithmTerminates ==
    /\ [](generation <= GaGenerations)
    /\ [](Len(newPopulation) <= Len(population))
    /\ (optPc = "evaluate") ~> (optPc = "simulate" /\ generation = GaGenerations)

\* The algorithm has returned for a population of individuals without
\* trains, after mutate was called on them.
C21_Witness ==
    /\ optPc = "simulate"
    /\ generation = GaGenerations
    /\ optTrains = <<>>
    /\ Len(population) > 1

GeneratedSchedules ==
    {<<Train(t), heap[population[i].trains[t].stations], population[i].trains[t]>> :
        t \in Range(optTrains), i \in DOMAIN population}

HaltCount(stops) == Cardinality({k \in DOMAIN stops : stops[k].isHalt})

\* C23: every generated schedule marks its first and its last station as
\* halts, whatever the train's type and halt budget.
C23_OriginAndDestinationHalt ==
    \A g \in GeneratedSchedules :
        g[2] # <<>> => g[2][1].isHalt /\ g[2][Len(g[2])].isHalt

C25_OnTimePercentage ==
    (optPc = "done" /\ optTrains # <<>>) =>
        optResult.performance.onTimePerformance = JsNumber(100)

\* The stations arrays of the individuals of pop are the same in h1 and h2.
SameStationTimes(pop, h1, h2) ==
    \A i \in DOMAIN pop : \A t \in DOMAIN pop[i].trains :
        h2[pop[i].trains[t].stations] = h1[pop[i].trains[t].stations]

\* The evaluation of a generation after the first: population[0] is then the
\* copy of the previous generation's best individual, with the fitness it
\* was evaluated to.
EvaluatesLaterGeneration ==
    /\ optPc = "evaluate" /\ optPc' = "offspring"
    /\ generation >= 1
    /\ population # <<>>

\* C28: the best fitness evaluated in a generation is not higher than the
\* best fitness evaluated in the generation before, and an iteration of the
\* offspring loop leaves the station times of the evaluated population (the
\* elite and the parents) as they were.
C28_BestFitnessNeverWorse ==
    [][/\ EvaluatesLaterGeneration => population'[1].fitness <= population[1].fitness
       /\ (optPc = "offspring" /\ newPopulation' # newPopulation) =>
              SameStationTimes(population, heap, heap')]_vars

\* C30: every 'emergency-signal' message received is eventually followed by
\* the broadcast of 'emergency-alert', whether or not the reporting train has
\* a stored schedule.
C30_EmergencyAlertFollows ==
    \A c \in CallIds : (calls[c].pc # "idle") ~> (calls[c].pc = "alerted")

IsNumeric(x) == x.kind = "number"

\* C27: whatever GPS readings and station reports have been ingested, the
\* fused latitude and longitude of every train's state, in the estimator and
\* in activeTrains, are numbers: a station report does not make them NaN.
C27_FusedPositionNumeric ==
    /\ \A k \in DOMAIN activeTrains :
          IsNumeric(activeTrains[k].position.lat) /\ IsNumeric(activeTrains[k].position.lon)
    /\ \A t \in DOMAIN stateEstimators :
          /\ IsNumeric(stateEstimators[t].state.position.lat)
          /\ IsNumeric(stateEstimators[t].state.position.lon)

\* C29: while conflict detection is disabled, no 'conflict-detected' event
\* is emitted and no conflict alert is broadcast, whatever else happens.
C29_NoConflictEventsWhileDisabled ==
    ~conflictDetectionActive => ~(lastCycle.finished /\ lastCycle.conflicts # <<>>)

====
